---- MODULE Spec2Model ----
(***************************************************************************)
(* The resume bot: the security middleware in front of the dispatcher, the *)
(* survey state machine, the edit-mode wrappers and the Firestore CRUD     *)
(* layer.                                                                  *)
(*                                                                         *)
(* Time is counted in half-seconds (every duration the middleware uses is  *)
(* a multiple of 0.5 s).  One delivery of an event reads the clock once:   *)
(* the time.time() calls inside one SecurityMiddleware.__call__ are        *)
(* microseconds apart and fall in the same half-second instant.            *)
(*                                                                         *)
(* A Python str is a sequence of one-character strings; None is modelled   *)
(* by NoUser / NoTime / NoState / NoData / a has_text flag.                *)
(***************************************************************************)
EXTENDS Integers, Sequences, FiniteSets, TLC

VARIABLES
    now,              \* wall clock, in half-seconds
    user_activities,  \* SecurityMiddleware.user_activities
    last_cleanup,     \* SecurityMiddleware._last_cleanup
    whitelist,        \* SecurityMiddleware.whitelist
    blacklist,        \* SecurityMiddleware.blacklist
    fsm_state,        \* FSMContext state, per user
    fsm_data,         \* FSMContext data, per user
    resumes,          \* the Firestore collection "resumes", per document id
    last,             \* the delivery made by the last step, and what it did
    taps              \* history: the category buttons a user pressed since the
                      \* categories keyboard was last shown to them empty

vars == <<now, user_activities, last_cleanup, whitelist, blacklist,
          fsm_state, fsm_data, resumes, last, taps>>

-----------------------------------------------------------------------------
(* Bounds of the model.                                                    *)

\* the gate on its own: no delivery is made after this instant (half-seconds)
GateHorizon == 6

\* the bot as wired: deliveries observed after the starting point
FlowHorizon == 2

\* category buttons pressed on one keyboard
MaxTaps == 2

-----------------------------------------------------------------------------
(* Identities.                                                             *)

NoUser == 0
BotId == 99
Users == {1, 2}

NoTime == 0 - 1
NoState == "None"
NoData == [tag |-> "", item |-> ""]

-----------------------------------------------------------------------------
(* Generic helpers: dict and deque.                                        *)

Get(d, k, default) == IF k \in DOMAIN d THEN d[k] ELSE default

Has(d, k) == k \in DOMAIN d

Upd(d, upd) ==
    [k \in DOMAIN upd \cup DOMAIN d |-> IF k \in DOMAIN upd THEN upd[k] ELSE d[k]]

EmptyDict == [k \in {} |-> 0]

Max(a, b) == IF a >= b THEN a ELSE b

\* deque(maxlen=n).append(x)
DequeAppend(q, x, maxlen) ==
    IF Len(q) >= maxlen THEN Append(Tail(q), x) ELSE Append(q, x)

RECURSIVE PopWhile(_, _, _)
\* while q and now - q[0] > window: q.popleft()      (q holds timestamps)
PopWhile(q, t, window) ==
    IF q # <<>> /\ t - Head(q) > window THEN PopWhile(Tail(q), t, window) ELSE q

RECURSIVE PopWhileMsg(_, _, _)
\* the same for a deque of (timestamp, text) pairs
PopWhileMsg(q, t, window) ==
    IF q # <<>> /\ t - Head(q)[1] > window
    THEN PopWhileMsg(Tail(q), t, window)
    ELSE q

\* sum(1 for t in q if now - t < window)
CountWithin(q, t, window) ==
    Cardinality({i \in 1..Len(q) : t - q[i] < window})

-----------------------------------------------------------------------------
(* SecurityMiddleware: configuration (bot.py / __init__ defaults).         *)
(* Durations are in half-seconds.                                          *)

max_requests_per_minute == 30
max_requests_per_hour == 200
max_requests_per_day == 1000
max_identical_messages == 5
identical_message_window == 120
min_message_interval == 1
burst_threshold == 10
burst_window == 4
max_survey_duration == 7200
max_state_changes_per_minute == 20
initial_block_duration == 600
max_block_duration == 172800
max_callbacks_per_second == 5
max_identical_callbacks == 10
identical_callback_window == 6
cleanup_interval == 7200
request_times_maxlen == 100
identical_messages_maxlen == 10
state_changes_maxlen == 100
callback_times_maxlen == 50

Minute == 120
Hour == 7200
Day == 172800
OneSecond == 2
CommandInterval == 4
BlockThreshold == 20
HighScore == 50
ExpiryDecrement == 10
BurstPenalty == 10
SpamPenalty == 15
IntervalPenalty == 5
StateChangePenalty == 10
CommandPenalty == 3
CallbackRatePenalty == 5
IdenticalCallbackPenalty == 8
FailedCheckPenalty == 5
BlockPenalty == 5

-----------------------------------------------------------------------------
(* UserActivity.  message_count, callback_count and user_id are written    *)
(* and never read by any check; they are left out.                         *)

\* UserActivity(user_id=0), created by the defaultdict at time t
NewActivity(t) ==
    [present |-> TRUE,
     last_activity |-> t,
     request_times |-> <<>>,
     identical_messages |-> <<>>,
     suspicious_score |-> 0,
     blocked_until |-> NoTime,
     survey_start_time |-> NoTime,
     last_state |-> NoState,
     state_changes |-> <<>>,
     last_command_time |-> NoTime,
     callback_times |-> <<>>,
     last_callback_data |-> NoData]

\* a key the dict does not hold
AbsentActivity == [NewActivity(NoTime) EXCEPT !.present = FALSE]

\* self.user_activities[user_id] on the defaultdict: creates the entry
Touch(acts, u, t) ==
    IF acts[u].present THEN acts ELSE [acts EXCEPT ![u] = NewActivity(t)]

\* a cleanup that removes every idle entry, whatever its request window
_cleanup_old_data_drops_idle(acts, lc, t) ==
    IF t - lc < cleanup_interval
    THEN [acts |-> acts, lc |-> lc]
    ELSE [acts |-> [u \in DOMAIN acts |->
                      IF /\ acts[u].present
                         /\ acts[u].blocked_until = NoTime
                         /\ acts[u].last_activity < t - Day
                      THEN AbsentActivity
                      ELSE acts[u]],
          lc |-> t]

_cleanup_old_data(acts, lc, t) ==
    IF t - lc < cleanup_interval
    THEN [acts |-> acts, lc |-> lc]
    ELSE [acts |-> [u \in DOMAIN acts |->
                      IF /\ acts[u].present
                         /\ acts[u].blocked_until = NoTime
                         /\ acts[u].last_activity < t - Day
                         /\ Len(acts[u].request_times) = 0
                      THEN AbsentActivity
                      ELSE acts[u]],
          lc |-> t]

\* a gate that knows no whitelist
_is_whitelisted_never(wl, u) == FALSE

_is_whitelisted(wl, u) == u \in wl

_is_blacklisted(bl, u) == u \in bl

\* returns the activity as _is_blocked leaves it, and its answer
_is_blocked_always_lifts(a, t) ==
    IF a.blocked_until = NoTime
    THEN [act |-> a, blocked |-> FALSE]
    ELSE [act |-> [a EXCEPT !.blocked_until = NoTime,
                            !.suspicious_score = Max(0, a.suspicious_score - ExpiryDecrement)],
          blocked |-> FALSE]

\* a gate that forgets the score when a block expires
_is_blocked_resets_score(a, t) ==
    IF a.blocked_until = NoTime
    THEN [act |-> a, blocked |-> FALSE]
    ELSE IF t < a.blocked_until
         THEN [act |-> a, blocked |-> TRUE]
         ELSE [act |-> [a EXCEPT !.blocked_until = NoTime, !.suspicious_score = 0],
               blocked |-> FALSE]

_is_blocked(a, t) ==
    IF a.blocked_until = NoTime
    THEN [act |-> a, blocked |-> FALSE]
    ELSE IF t < a.blocked_until
         THEN [act |-> a, blocked |-> TRUE]
         ELSE [act |-> [a EXCEPT !.blocked_until = NoTime,
                                 !.suspicious_score = Max(0, a.suspicious_score - ExpiryDecrement)],
               blocked |-> FALSE]

\* _block_user(user_id) with duration=None
_block_user(a, t) ==
    LET duration == IF a.suspicious_score < BlockThreshold THEN initial_block_duration
                    ELSE IF a.suspicious_score < HighScore THEN initial_block_duration * 2
                    ELSE max_block_duration
    IN [a EXCEPT !.blocked_until = t + duration,
                 !.suspicious_score = a.suspicious_score + BlockPenalty]

_check_rate_limit(a, t) ==
    LET requests_last_minute == CountWithin(a.request_times, t, Minute)
        requests_last_hour == CountWithin(a.request_times, t, Hour)
        requests_last_day == CountWithin(a.request_times, t, Day)
    IN [act |-> a,
        passed |-> ~ \/ requests_last_minute > max_requests_per_minute
                     \/ requests_last_hour > max_requests_per_hour
                     \/ requests_last_day > max_requests_per_day]

_check_burst_protection_strict(a, t) ==
    IF CountWithin(a.request_times, t, burst_window) > burst_threshold
    THEN [act |-> [a EXCEPT !.suspicious_score = a.suspicious_score + BurstPenalty],
          passed |-> FALSE]
    ELSE [act |-> a, passed |-> TRUE]

_check_burst_protection(a, t) ==
    IF CountWithin(a.request_times, t, burst_window) >= burst_threshold
    THEN [act |-> [a EXCEPT !.suspicious_score = a.suspicious_score + BurstPenalty],
          passed |-> FALSE]
    ELSE [act |-> a, passed |-> TRUE]

_check_command_spam(a, t, is_command) ==
    IF ~is_command
    THEN [act |-> a, passed |-> TRUE]
    ELSE IF a.last_command_time # NoTime /\ t - a.last_command_time < CommandInterval
         THEN [act |-> [a EXCEPT !.suspicious_score = a.suspicious_score + CommandPenalty],
               passed |-> FALSE]
         ELSE [act |-> [a EXCEPT !.last_command_time = t], passed |-> TRUE]

_check_callback_spam(a, t, callback_data, is_callback) ==
    IF ~is_callback \/ callback_data = NoData
    THEN [act |-> a, passed |-> TRUE]
    ELSE
      LET times == PopWhile(a.callback_times, t, OneSecond)
          a1 == [a EXCEPT !.callback_times = times]
      IN IF Len(times) >= max_callbacks_per_second
         THEN [act |-> [a1 EXCEPT !.suspicious_score = a.suspicious_score + CallbackRatePenalty],
               passed |-> FALSE]
         ELSE IF /\ callback_data = a.last_callback_data
                 /\ CountWithin(times, t, identical_callback_window) >= max_identical_callbacks
              THEN [act |-> [a1 EXCEPT !.suspicious_score =
                                           a.suspicious_score + IdenticalCallbackPenalty],
                    passed |-> FALSE]
              ELSE [act |-> [a1 EXCEPT !.callback_times =
                                           DequeAppend(times, t, callback_times_maxlen),
                                       !.last_callback_data = callback_data],
                    passed |-> TRUE]

\* the interval rule alone (the second half of _check_spam_detection)
IntervalRule(a, t) ==
    IF a.request_times # <<>> /\ t - a.request_times[Len(a.request_times)] < min_message_interval
    THEN [act |-> [a EXCEPT !.suspicious_score = a.suspicious_score + IntervalPenalty],
          passed |-> FALSE]
    ELSE [act |-> a, passed |-> TRUE]

\* called only with a non-empty message_text (__call__, line 421)
_check_spam_detection(a, t, message_text) ==
    LET msgs == PopWhileMsg(a.identical_messages, t, identical_message_window)
        identical_count == Cardinality({i \in 1..Len(msgs) : msgs[i][2] = message_text})
        a1 == [a EXCEPT !.identical_messages = msgs]
    IN IF identical_count >= max_identical_messages
       THEN [act |-> [a1 EXCEPT !.suspicious_score = a.suspicious_score + SpamPenalty],
             passed |-> FALSE]
       ELSE IntervalRule(
              [a1 EXCEPT !.identical_messages =
                             DequeAppend(msgs, <<t, message_text>>, identical_messages_maxlen)],
              t)

\* state is the FSMContext of the update; current_state is state.get_state()
_check_survey_protection(a, t, current_state) ==
    IF current_state # NoState /\ a.survey_start_time = NoTime
    THEN [act |-> [a EXCEPT !.survey_start_time = t,
                            !.last_state = current_state,
                            !.state_changes = DequeAppend(a.state_changes, t, state_changes_maxlen)],
          passed |-> TRUE]
    ELSE IF current_state # NoState
    THEN IF t - a.survey_start_time > max_survey_duration
         THEN [act |-> a, passed |-> FALSE]
         ELSE IF current_state # a.last_state
              THEN LET changes == PopWhile(DequeAppend(a.state_changes, t, state_changes_maxlen),
                                           t, Minute)
                       a1 == [a EXCEPT !.state_changes = changes, !.last_state = current_state]
                   IN IF Len(changes) > max_state_changes_per_minute
                      THEN [act |-> [a1 EXCEPT !.suspicious_score =
                                                   a.suspicious_score + StateChangePenalty],
                            passed |-> FALSE]
                      ELSE [act |-> a1, passed |-> TRUE]
              ELSE [act |-> a, passed |-> TRUE]
    ELSE IF a.survey_start_time # NoTime
         THEN [act |-> [a EXCEPT !.survey_start_time = NoTime,
                                 !.state_changes = <<>>,
                                 !.last_state = NoState],
               passed |-> TRUE]
         ELSE [act |-> a, passed |-> TRUE]

_update_activity(a, t) ==
    [a EXCEPT !.last_activity = t,
              !.request_times = DequeAppend(a.request_times, t, request_times_maxlen)]

-----------------------------------------------------------------------------
(* SecurityMiddleware.__call__.                                            *)
(* An event is [kind, from_user, has_text, text, contact, data, msg_from]: *)
(* kind "message" or "callback"; from_user the sender (NoUser when absent);*)
(* text the message text when has_text; contact whether a contact is       *)
(* attached; data the callback payload as [tag, item] (the string          *)
(* tag ++ item); msg_from the from_user of callback.message; seen_as the    *)
(* type of the object the middleware is called with: "Message" or          *)
(* "CallbackQuery" on those observers, "Update" on the update observer.    *)

\* user_id of __call__ (lines 368-383): only a Message or a CallbackQuery
\* yields one
ExtractUser(ev) == IF ev.seen_as \in {"Message", "CallbackQuery"} THEN ev.from_user ELSE NoUser

IsCommand(ev) == ev.kind = "message" /\ ev.has_text /\ ev.text # <<>> /\ Head(ev.text) = "/"

HasMessageText(ev) == ev.kind = "message" /\ ev.has_text /\ ev.text # <<>>

Passed(a) == [act |-> a, passed |-> TRUE]

\* one entry of the checks list: the activity the check leaves, and the
\* names of the checks that have failed so far, in list order
Listed(s, name, r) ==
    [act |-> r.act, failed |-> IF r.passed THEN s.failed ELSE Append(s.failed, name)]

\* the checks list of __call__: every check is called while the list is
\* built (lines 411-425), each on the activity the previous one left
RunChecks(a0, t, ev, current_state) ==
    LET RateLimit(s) == Listed(s, "rate_limit", _check_rate_limit(s.act, t))
        Burst(s) == Listed(s, "burst", _check_burst_protection(s.act, t))
        CommandSpam(s) ==
          Listed(s, "command_spam", _check_command_spam(s.act, t, IsCommand(ev)))
        CallbackSpam(s) ==
          Listed(s, "callback_spam",
                  IF ev.kind = "callback"
                  THEN _check_callback_spam(s.act, t, ev.data, TRUE)
                  ELSE Passed(s.act))
        Spam(s) ==
          Listed(s, "spam",
                  IF HasMessageText(ev)
                  THEN _check_spam_detection(s.act, t, ev.text)
                  ELSE Passed(s.act))
        Survey(s) == Listed(s, "survey", _check_survey_protection(s.act, t, current_state))
        Results(s) ==
          [act |-> s.act,
           failed |-> IF s.failed = <<>> THEN "none" ELSE Head(s.failed),
           failed_set |-> {s.failed[i] : i \in 1..Len(s.failed)}]
    IN Results(Survey(Spam(CallbackSpam(CommandSpam(Burst(RateLimit(
                 [act |-> a0, failed |-> <<>>])))))))

\* a loop that blocks only above the threshold
AfterFailure_blocks_above_threshold(a, t) ==
    LET Scored(a1) == IF a1.suspicious_score > BlockThreshold THEN _block_user(a1, t) ELSE a1
    IN Scored([a EXCEPT !.suspicious_score = a.suspicious_score + FailedCheckPenalty])

\* the loop over checks (lines 427-444): the first failure drops the event
AfterFailure(a, t) ==
    LET Scored(a1) == IF a1.suspicious_score >= BlockThreshold THEN _block_user(a1, t) ELSE a1
    IN Scored([a EXCEPT !.suspicious_score = a.suspicious_score + FailedCheckPenalty])

\* verdict: "forward" or the reason the event is dropped
SecurityMiddleware(acts, lc, wl, bl, ev, t, current_state) ==
    LET Decided(c, u, acts1, r) ==
          IF r.failed = "none"
          THEN [acts |-> [acts1 EXCEPT ![u] = r.act], lc |-> c.lc,
                verdict |-> "forward", failed_set |-> {}]
          ELSE [acts |-> [acts1 EXCEPT ![u] = AfterFailure(r.act, t)], lc |-> c.lc,
                verdict |-> r.failed, failed_set |-> r.failed_set]
        NotBlocked(c, u, acts1, b) ==
          IF b.blocked
          THEN [acts |-> [acts1 EXCEPT ![u] = b.act], lc |-> c.lc,
                verdict |-> "blocked", failed_set |-> {}]
          ELSE Decided(c, u, acts1,
                       RunChecks(_update_activity(b.act, t), t, ev, current_state))
        Tracked(c, u, acts1) == NotBlocked(c, u, acts1, _is_blocked(acts1[u], t))
        Identified(c, u) ==
          IF u = NoUser
          THEN [acts |-> c.acts, lc |-> c.lc, verdict |-> "forward", failed_set |-> {}]
          ELSE IF _is_whitelisted(wl, u)
          THEN [acts |-> c.acts, lc |-> c.lc, verdict |-> "forward", failed_set |-> {}]
          ELSE IF _is_blacklisted(bl, u)
          THEN [acts |-> c.acts, lc |-> c.lc, verdict |-> "blacklisted", failed_set |-> {}]
          ELSE Tracked(c, u, Touch(c.acts, u, t))
    IN Identified(_cleanup_old_data(acts, lc, t), ExtractUser(ev))

-----------------------------------------------------------------------------
(* Python str operations, over sequences of one-character strings.  A      *)
(* code point outside ASCII is written as one token: "<cyr>" a Cyrillic    *)
(* letter, "<U+1F600>" and "<U+274C>" two pictographs.                     *)

Digits == {"0", "1", "2", "3", "4", "5", "6", "7", "8", "9"}

DigitVal == [c \in Digits |->
               CASE c = "0" -> 0 [] c = "1" -> 1 [] c = "2" -> 2 [] c = "3" -> 3
                 [] c = "4" -> 4 [] c = "5" -> 5 [] c = "6" -> 6 [] c = "7" -> 7
                 [] c = "8" -> 8 [] c = "9" -> 9]

AsciiLetters == {"a", "b", "c", "d", "e", "f", "g", "h", "i", "j", "k", "l", "m", "n",
                 "o", "p", "q", "r", "s", "t", "u", "v", "w", "x", "y", "z",
                 "A", "B", "C", "D", "E", "F", "G", "H", "I", "J", "K", "L", "M", "N",
                 "O", "P", "Q", "R", "S", "T", "U", "V", "W", "X", "Y", "Z"}

IsDigit(c) == c \in Digits

IsSpace(c) == c = " "

IsCyrillic(c) == c = "<cyr>"

\* str.isalpha() of one character
IsAlpha(c) == c \in AsciiLetters \/ IsCyrillic(c)

\* the character class of remove_emojis (stage_resume.py, lines 1344-1359)
EmojiChars == {"<U+1F600>", "<U+274C>"}

IsEmoji(c) == c \in EmojiChars

AllChars(s, P(_)) == \A i \in 1..Len(s) : P(s[i])

AnyChar(s, P(_)) == \E i \in 1..Len(s) : P(s[i])

RECURSIVE LStrip(_)
LStrip(s) == IF s # <<>> /\ IsSpace(Head(s)) THEN LStrip(Tail(s)) ELSE s

RECURSIVE RStrip(_)
RStrip(s) ==
    IF s # <<>> /\ IsSpace(s[Len(s)]) THEN RStrip(SubSeq(s, 1, Len(s) - 1)) ELSE s

\* str.strip()
Strip(s) == RStrip(LStrip(s))

\* len(s.split()): the number of maximal runs of non-space characters
WordCount(s) ==
    Cardinality({i \in 1..Len(s) : ~IsSpace(s[i]) /\ (i = 1 \/ IsSpace(s[i - 1]))})

RECURSIVE Without(_, _)
\* s.replace(c, "") for every c in chars
Without(s, chars) ==
    IF s = <<>> THEN <<>>
    ELSE IF Head(s) \in chars THEN Without(Tail(s), chars)
    ELSE <<Head(s)>> \o Without(Tail(s), chars)

RECURSIVE SplitOn(_, _)
\* s.split(sep) for a one-character separator
SplitOn(s, sep) ==
    IF \A i \in 1..Len(s) : s[i] # sep THEN <<s>>
    ELSE LET k == CHOOSE i \in 1..Len(s) : s[i] = sep /\ \A j \in 1..(i - 1) : s[j] # sep
         IN <<SubSeq(s, 1, k - 1)>> \o SplitOn(SubSeq(s, k + 1, Len(s)), sep)

RECURSIVE DecimalValue(_)
\* int(s) of a non-empty string of digits
DecimalValue(s) ==
    IF s = <<>> THEN 0
    ELSE DecimalValue(SubSeq(s, 1, Len(s) - 1)) * 10 + DigitVal[s[Len(s)]]

\* str.isdigit()
IsDigitStr(s) == s # <<>> /\ AllChars(s, IsDigit)

\* int(s) succeeds: an optional sign and digits
Unsigned(s) == IF s # <<>> /\ Head(s) \in {"+", "-"} THEN Tail(s) ELSE s

ParsesAsInt(s) == IsDigitStr(Unsigned(s))

IntValue(s) ==
    IF s # <<>> /\ Head(s) = "-" THEN 0 - DecimalValue(Unsigned(s))
    ELSE DecimalValue(Unsigned(s))

\* float(s) succeeds: an optional sign, digits, at most one point.  The
\* value is kept in tenths (one fractional digit is read).
ParsesAsFloat(s) ==
    LET parts == SplitOn(Unsigned(s), ".")
    IN /\ Len(parts) \in {1, 2}
       /\ \A i \in 1..Len(parts) : AllChars(parts[i], IsDigit)
       /\ \E i \in 1..Len(parts) : parts[i] # <<>>

FloatTenths(s) ==
    LET parts == SplitOn(Unsigned(s), ".")
        whole == DecimalValue(parts[1]) * 10
        frac == IF Len(parts) = 2 /\ parts[2] # <<>> THEN DigitVal[parts[2][1]] ELSE 0
        v == whole + frac
    IN IF s # <<>> /\ Head(s) = "-" THEN 0 - v ELSE v

RECURSIVE CollapseSpaces(_)
\* re.sub(r"\s+", " ", s)
CollapseSpaces(s) ==
    IF s = <<>> THEN <<>>
    ELSE IF IsSpace(Head(s)) THEN <<" ">> \o CollapseSpaces(LStrip(s))
    ELSE <<Head(s)>> \o CollapseSpaces(Tail(s))

remove_emojis(text) ==
    IF text = <<>> THEN text
    ELSE Strip(CollapseSpaces(Without(text, EmojiChars)))

MapSeq(s, F(_)) == [i \in 1..Len(s) |-> F(s[i])]

RECURSIVE FilterNonEmpty(_)
FilterNonEmpty(s) ==
    IF s = <<>> THEN <<>>
    ELSE IF Head(s) = <<>> THEN FilterNonEmpty(Tail(s))
    ELSE <<Head(s)>> \o FilterNonEmpty(Tail(s))

\* _convert_car_types_to_list of a str
_convert_car_types_to_list(car_types) ==
    FilterNonEmpty(MapSeq(SplitOn(car_types, ","), Strip))

Range(s) == {s[i] : i \in 1..Len(s)}

-----------------------------------------------------------------------------
(* constants.py: the option lists and the two menu buttons.                *)

CAT_B == <<"B">>
CAT_C1E == <<"C", "1", "E">>
CAT_CE == <<"C", "E">>

DRIVING_CATEGORIES == <<CAT_B, CAT_C1E>>

DRIVING_CATEGORIES_ADDITIONAL_INFO == <<CAT_C1E, CAT_CE>>

SEMI_TRAILERS_TYPES == << <<"t", "e", "n", "t">>, <<"r", "e", "f">> >>

TYPES_OF_WORK == << <<"c", "i", "t", "y">>, <<"t", "r", "u", "c", "k">> >>

RACE_DURATION_OPTIONS == << <<"s", "h", "o", "r", "t">>, <<"y", "e", "a", "r">> >>

\* "❌ Не маю" (stage_resume.py, line 1010)
no_docs_option == <<"<U+274C>", " ", "<cyr>", "<cyr>", " ", "<cyr>", "<cyr>", "<cyr>">>

DOCS_FOR_DRIVING_ABROAD == << <<"V", "i", "s", "a">>, <<"c", "a", "r", "d">>, no_docs_option >>

REGION_KYIV == <<"k", "y", "i", "v">>

REGIONS == (REGION_KYIV :> <<"K", "y", "i", "v", " ", "o", "b", "l">>)

button_create_resume == <<"c", "r", "e", "a", "t", "e">>

button_my_resume == <<"m", "y">>

start_command == <<"/", "s", "t", "a", "r", "t">>

-----------------------------------------------------------------------------
(* Values.                                                                 *)

NoneStr == <<"<None>">>
NoneInt == 0 - 1
NoUsername == "<None>"

Username(u) == IF u = 1 THEN "alice" ELSE NoUsername

\* callback.data[len(prefix):] as a Python str, for the suffixes that reach a str
ItemChars(item) ==
    CASE item = "kyiv" -> REGION_KYIV
      [] item = "x" -> <<"x">>
      [] item = "" -> <<>>
      [] OTHER -> <<item>>

\* int(item_id) succeeds
IsIndex(item) == item \in Digits

IndexOf(item) == DigitVal[item]

\* list(a_set): the elements in one of the orders the hash seed can give
\* (ascending or descending by their place in Universe)
Universe == DRIVING_CATEGORIES \o SEMI_TRAILERS_TYPES \o TYPES_OF_WORK
            \o RACE_DURATION_OPTIONS \o DOCS_FOR_DRIVING_ABROAD \o << <<"x">> >>

Place(x) == CHOOSE i \in 1..Len(Universe) : Universe[i] = x

RECURSIVE AscList(_)
AscList(S) ==
    IF S = {} THEN <<>>
    ELSE LET m == CHOOSE x \in S : \A y \in S : Place(x) <= Place(y)
         IN <<m>> \o AscList(S \ {m})

Reverse(s) == [i \in 1..Len(s) |-> s[Len(s) + 1 - i]]

ListOf(S, order) == IF order = "asc" THEN AscList(S) ELSE Reverse(AscList(S))

RECURSIVE JoinComma(_)
\* ", ".join(list_of_str)
JoinComma(l) ==
    IF l = <<>> THEN <<>>
    ELSE IF Len(l) = 1 THEN l[1]
    ELSE l[1] \o <<",", " ">> \o JoinComma(Tail(l))

-----------------------------------------------------------------------------
(* firebase_db/crud.py.  A resume document is a function from field names  *)
(* to values; created_at / updated_at are left out.  NoResume is a         *)
(* document that does not exist.  outcome is what the Firestore client     *)
(* does: "ok", or "fail" (it raises inside the *_sync function, which      *)
(* catches it), or "raise" (the awaited call itself raises).               *)

NoResume == [exists |-> FALSE]

Exists(doc) == "exists" \notin DOMAIN doc

add_resume_sync(db, resume, outcome) ==
    LET user_id == resume["user_id"] IN
    IF user_id = NoUser \/ user_id <= 0 THEN [db |-> db, result |-> FALSE]
    ELSE IF outcome # "ok" THEN [db |-> db, result |-> FALSE]
    ELSE [db |-> [db EXCEPT ![user_id] =
                     [k \in DOMAIN resume |->
                        IF k = "username" /\ resume[k] = "" THEN NoUsername ELSE resume[k]]],
          result |-> TRUE]

get_resume_sync(db, user_id, outcome) ==
    IF user_id <= 0 \/ user_id \notin DOMAIN db \/ outcome # "ok" THEN NoResume
    ELSE db[user_id]

delete_resume_sync(db, user_id, outcome) ==
    IF user_id <= 0 \/ user_id \notin DOMAIN db THEN [db |-> db, result |-> FALSE]
    ELSE IF outcome # "ok" THEN [db |-> db, result |-> FALSE]
    ELSE IF Exists(db[user_id])
         THEN [db |-> [db EXCEPT ![user_id] = NoResume], result |-> TRUE]
         ELSE [db |-> db, result |-> FALSE]

\* an update that creates the document when there is none (set with merge)
update_resume_sync_creates_missing(db, user_id, updates, outcome) ==
    IF user_id <= 0 \/ user_id \notin DOMAIN db THEN [db |-> db, result |-> FALSE]
    ELSE IF outcome # "ok" THEN [db |-> db, result |-> FALSE]
    ELSE IF ~Exists(db[user_id])
         THEN [db |-> [db EXCEPT ![user_id] = updates], result |-> TRUE]
         ELSE [db |-> [db EXCEPT ![user_id] = updates @@ db[user_id]], result |-> TRUE]

\* an update that merges the payload as it is
update_resume_sync_merges_all(db, user_id, updates, outcome) ==
    IF user_id <= 0 \/ user_id \notin DOMAIN db THEN [db |-> db, result |-> FALSE]
    ELSE IF outcome # "ok" THEN [db |-> db, result |-> FALSE]
    ELSE IF ~Exists(db[user_id]) THEN [db |-> db, result |-> FALSE]
    ELSE [db |-> [db EXCEPT ![user_id] = updates @@ db[user_id]], result |-> TRUE]

\* existing_data.get(k) is None for a key the document does not have
update_resume_sync(db, user_id, updates, outcome) ==
    IF user_id <= 0 \/ user_id \notin DOMAIN db THEN [db |-> db, result |-> FALSE]
    ELSE IF outcome # "ok" THEN [db |-> db, result |-> FALSE]
    ELSE IF ~Exists(db[user_id]) THEN [db |-> db, result |-> FALSE]
    ELSE LET existing_data == db[user_id]
             update_data == [k \in DOMAIN updates |->
                               IF existing_data = EmptyDict THEN updates[k]
                               ELSE IF k = "user_id" THEN Get(existing_data, k, NoneInt)
                               ELSE IF k = "username" THEN Get(existing_data, k, NoUsername)
                               ELSE updates[k]]
         IN [db |-> [db EXCEPT ![user_id] = update_data @@ existing_data],
             result |-> TRUE]

-----------------------------------------------------------------------------
(* What a handler works on: w = [state, data, db, sent, calls], the        *)
(* user's FSM state and data, the collection, the messages sent to the     *)
(* user and the persistence calls made while handling one event.           *)

Answer(w, key) == [w EXCEPT !.sent = w.sent \cup {key}]

set_state(w, st) == [w EXCEPT !.state = st]

update_data(w, upd) == [w EXCEPT !.data = Upd(w.data, upd)]

\* FSMContext.clear(): state None and data {}
clear(w) == [w EXCEPT !.state = NoState, !.data = EmptyDict]

Call(w, op, key, payload, ok) ==
    [w EXCEPT !.calls = Append(w.calls, [op |-> op, key |-> key, payload |-> payload, ok |-> ok])]

-----------------------------------------------------------------------------
(* app/functions.py                                                        *)

\* a toggle that adds and never removes
toggle_selection_never_removes(w, ev, prefix, field_name, options, order) ==
    LET selected == Range(Get(w.data, field_name, <<>>))
        item_id == ev.data.item
    IN IF ev.data.tag # prefix THEN Answer(w, "error_processing")
       ELSE IF item_id = "submit"
       THEN IF selected = {} THEN Answer(w, "error_no_selection")
            ELSE Answer(w, "msg_selected")
       ELSE IF IsIndex(item_id) /\ ~(IndexOf(item_id) < Len(options))
       THEN Answer(w, "error_invalid_index")
       ELSE LET item == IF IsIndex(item_id) THEN options[IndexOf(item_id) + 1]
                        ELSE ItemChars(item_id)
            IN update_data(w, (field_name :> ListOf(selected \cup {item}, order)))

\* a toggle that accepts the submit of an empty selection
toggle_selection_accepts_empty(w, ev, prefix, field_name, options, order) ==
    LET selected == Range(Get(w.data, field_name, <<>>))
        item_id == ev.data.item
    IN IF ev.data.tag # prefix THEN Answer(w, "error_processing")
       ELSE IF item_id = "submit" THEN Answer(w, "msg_selected")
       ELSE IF IsIndex(item_id) /\ ~(IndexOf(item_id) < Len(options))
       THEN Answer(w, "error_invalid_index")
       ELSE LET item == IF IsIndex(item_id) THEN options[IndexOf(item_id) + 1]
                        ELSE ItemChars(item_id)
                toggled == IF item \in selected THEN selected \ {item}
                           ELSE selected \cup {item}
            IN update_data(w, (field_name :> ListOf(toggled, order)))

\* order: the order list(selected) comes out in
toggle_selection(w, ev, prefix, field_name, options, order) ==
    LET selected == Range(Get(w.data, field_name, <<>>))
        item_id == ev.data.item
    IN IF ev.data.tag # prefix THEN Answer(w, "error_processing")
       ELSE IF item_id = "submit"
       THEN IF selected = {} THEN Answer(w, "error_no_selection")
            ELSE Answer(w, "msg_selected")
       ELSE IF IsIndex(item_id) /\ ~(IndexOf(item_id) < Len(options))
       THEN Answer(w, "error_invalid_index")
       ELSE LET item == IF IsIndex(item_id) THEN options[IndexOf(item_id) + 1]
                        ELSE ItemChars(item_id)
                toggled == IF item \in selected THEN selected \ {item}
                           ELSE selected \cup {item}
            IN update_data(w, (field_name :> ListOf(toggled, order)))

-----------------------------------------------------------------------------
(* app/build_resume/stage_resume.py: the creation flow.  A handler that    *)
(* raises (message.text is None) leaves everything as it was.              *)

\* the validation of process_name (lines 150-210): the message to answer, or "ok"
name_error(name) ==
    IF name = <<>> THEN "error_name_empty"
    ELSE IF Len(name) < 2 THEN "error_name_too_short"
    ELSE IF Len(name) > 100 THEN "error_name_too_long"
    ELSE IF ~(\A i \in 1..Len(name) : IsAlpha(name[i]) \/ IsSpace(name[i]) \/ name[i] = "-")
    THEN "error_name_invalid_format"
    ELSE IF WordCount(name) < 2 THEN "error_name_single_word"
    ELSE "ok"

process_name(w, ev) ==
    IF ~ev.has_text THEN w
    ELSE LET name == Strip(ev.text) IN
         IF name_error(name) # "ok" THEN Answer(w, name_error(name))
         ELSE Answer(set_state(update_data(w, ("name" :> name)), "phone"), "ask_phone")

\* the phone number of an attached contact, as Telegram supplies it
ContactPhone == <<"3", "8", "0">>

\* re.match(r"^\+380\d{9}$", s)
MatchesPhone(s) ==
    /\ Len(s) = 13
    /\ SubSeq(s, 1, 4) = <<"+", "3", "8", "0">>
    /\ AllChars(SubSeq(s, 5, 13), IsDigit)

process_phone(w, ev) ==
    IF ev.contact
    THEN Answer(set_state(update_data(w, ("phone" :> ContactPhone)), "age"), "ask_age")
    ELSE IF ~ev.has_text THEN w
    ELSE IF ~MatchesPhone(ev.text) THEN Answer(w, "error_invalid_phone")
    ELSE Answer(set_state(update_data(w, ("phone" :> ev.text)), "age"), "ask_age")

process_age(w, ev) ==
    IF ~ev.has_text THEN w
    ELSE LET age_text == Strip(ev.text) IN
         IF age_text = <<>> THEN Answer(w, "error_age_empty")
         ELSE IF AnyChar(age_text, IsSpace) THEN Answer(w, "error_age_has_spaces")
         ELSE IF ~IsDigitStr(age_text) \/ ~(18 <= IntValue(age_text) /\ IntValue(age_text) <= 100)
         THEN Answer(w, "error_invalid_age")
         ELSE Answer(set_state(update_data(w, ("age" :> IntValue(age_text))),
                               "place_of_living_region"),
                     "ask_place_of_living_region")

process_place_of_region_callback(w, ev) ==
    LET region == ItemChars(ev.data.item)
    IN Answer(set_state(update_data(w, ("place_of_living_region" :> region)),
                        "place_of_living_city"),
              "hint_place_of_living_city")

\* the validation of process_place_of_city (lines 371-398)
city_error(city) ==
    IF city = <<>> THEN "error_city_empty"
    ELSE IF Len(city) < 2 THEN "error_city_too_short"
    ELSE IF Len(city) > 100 THEN "error_city_too_long"
    ELSE IF IsDigitStr(city) THEN "error_city_only_digits"
    ELSE "ok"

process_place_of_city(w, ev) ==
    IF ~ev.has_text THEN w
    ELSE LET city == Strip(ev.text) IN
         IF city_error(city) # "ok" THEN Answer(w, city_error(city))
         ELSE Answer(set_state(update_data(w, ("place_of_living_city" :> city)),
                               "driving_categories"),
                     "ask_driving_categories")

toggle_driving_categories(w, ev, order) ==
    LET is_submit == ev.data.tag = "driver_categories_" /\ ev.data.item = "submit"
        w1 == toggle_selection(w, ev, "driver_categories_", "selected_driver_categories",
                               DRIVING_CATEGORIES, order)
        selected == Get(w1.data, "selected_driver_categories", <<>>)
    IN IF is_submit /\ selected # <<>>
       THEN Answer(set_state(update_data(w1, ("selected_driver_categories" :> selected)
                                             @@ ("current_category_index" :> 0)
                                             @@ ("driving_experience" :> EmptyDict)),
                             "driving_exp_per_category"),
                   "ask_driving_exp")
       ELSE w1

\* a survey that never asks for semi-trailer types
needs_additional_survey_never(selected_categories) == FALSE

\* any(cat in selected_set for cat in DRIVING_CATEGORIES_ADDITIONAL_INFO)
needs_additional_survey(selected_categories) ==
    \E i \in 1..Len(DRIVING_CATEGORIES_ADDITIONAL_INFO) :
        DRIVING_CATEGORIES_ADDITIONAL_INFO[i] \in Range(selected_categories)

\* the validation of process_driving_exp_per_category (lines 611-640); years
\* are kept in tenths, so the range test is 0 <= tenths <= 1000
years_error(years_text) ==
    IF years_text = <<>> THEN "error_not_numeric"
    ELSE IF AnyChar(years_text, IsSpace) THEN "error_not_numeric"
    ELSE IF ~ParsesAsFloat(years_text) THEN "error_not_numeric"
    ELSE IF FloatTenths(years_text) < 0 \/ FloatTenths(years_text) > 1000
    THEN "error_invalid_years"
    ELSE "ok"

process_driving_exp_per_category(w, ev) ==
    IF ~ev.has_text THEN w
    ELSE LET selected_categories == Get(w.data, "selected_driver_categories", <<>>)
             current_index == Get(w.data, "current_category_index", 0)
             experience_dict == Get(w.data, "driving_experience", EmptyDict)
             years_text == Strip(ev.text)
         IN IF years_error(years_text) # "ok" THEN Answer(w, years_error(years_text))
            ELSE IF ~(current_index < Len(selected_categories)) THEN w
            ELSE LET current_cat == selected_categories[current_index + 1]
                     w1 == update_data(w, ("driving_experience" :>
                              Upd(experience_dict, (current_cat :> FloatTenths(years_text)))))
                     next_index == current_index + 1
                 IN IF next_index < Len(selected_categories)
                    THEN Answer(update_data(w1, ("current_category_index" :> next_index)),
                                "ask_driving_exp")
                    ELSE IF needs_additional_survey(selected_categories)
                    THEN set_state(Answer(w1, "ask_semi_trailer_types"),
                                   "driving_semi_trailer_types")
                    ELSE Answer(set_state(w1, "type_of_work"), "ask_type_of_work")

process_driving_semi_trailer_types(w, ev, order) ==
    IF ev.data.tag = "semi_trailer_" /\ ev.data.item = "submit"
    THEN LET selected_types == Get(w.data, "semi_trailer_selection", <<>>)
         IN IF selected_types = <<>> THEN Answer(w, "error_no_semi_trailer")
            ELSE Answer(set_state(update_data(w, ("semi_trailer_types" :> selected_types)),
                                  "type_of_work"),
                        "ask_type_of_work")
    ELSE toggle_selection(w, ev, "semi_trailer_", "semi_trailer_selection",
                          SEMI_TRAILERS_TYPES, order)

toggle_type_of_work(w, ev, order) ==
    LET is_submit == ev.data.tag = "type_of_work_" /\ ev.data.item = "submit"
        w1 == toggle_selection(w, ev, "type_of_work_", "selected_types_of_work",
                               TYPES_OF_WORK, order)
        selected == Get(w1.data, "selected_types_of_work", <<>>)
    IN IF is_submit /\ selected # <<>>
       THEN Answer(set_state(update_data(w1, ("types_of_work" :> selected)), "types_of_cars"),
                   "ask_types_of_cars")
       ELSE w1

\* the characters process_types_of_cars allows (line 762)
allowed_chars == AsciiLetters \cup Digits \cup {" ", ",", "-", "."}

\* an entry of at least two words, one of them with a letter
ValidCarEntry(entry) == WordCount(entry) >= 2 /\ AnyChar(entry, IsAlpha)

\* the validation of process_types_of_cars (lines 732-794)
cars_error(text) ==
    LET entries == MapSeq(SplitOn(text, ","), Strip)
    IN IF text = <<>> THEN "error_types_of_cars_empty"
       ELSE IF Len(text) < 3 THEN "error_types_of_cars_too_short"
       ELSE IF Len(text) > 500 THEN "error_types_of_cars_too_long"
       ELSE IF AnyChar(text, IsCyrillic) THEN "error_types_of_cars_cyrillic"
       ELSE IF ~(\A i \in 1..Len(text) : text[i] \in allowed_chars)
       THEN "error_types_of_cars_invalid_chars"
       ELSE IF ~AnyChar(text, IsAlpha) THEN "error_types_of_cars_no_letters"
       ELSE IF ~(\E i \in 1..Len(entries) : ValidCarEntry(entries[i]))
       THEN "error_types_of_cars_invalid_format"
       ELSE "ok"

process_types_of_cars(w, ev) ==
    IF ~ev.has_text THEN w
    ELSE LET text == Strip(ev.text)
         IN IF cars_error(text) # "ok" THEN Answer(w, cars_error(text))
            ELSE Answer(set_state(update_data(w, ("types_of_cars" :> text)), "is_adr_license"),
                        "ask_is_adr_license")

process_adr_license(w, ev) ==
    IF ev.data.tag = "adr_" /\ ev.data.item \in {"yes", "no"}
    THEN Answer(set_state(update_data(w, ("is_adr_license" :> (ev.data.item = "yes"))),
                          "race_duration_preference"),
                "ask_race_duration")
    ELSE Answer(w, "error_processing")

toggle_race_duration(w, ev, order) ==
    LET is_submit == ev.data.tag = "race_duration_" /\ ev.data.item = "submit"
        w1 == toggle_selection(w, ev, "race_duration_", "selected_race_durations",
                               RACE_DURATION_OPTIONS, order)
        selected == Get(w1.data, "selected_race_durations", <<>>)
    IN IF is_submit /\ selected # <<>>
       THEN Answer(set_state(update_data(w1, ("race_duration_preference" :> selected)),
                             "desired_salary"),
                   "ask_desired_salary")
       ELSE w1

\* salary_text.replace(" ", "").replace(",", "").replace(".", "")
salary_clean(salary_text) == Without(salary_text, {" ", ",", "."})

\* the validation of process_desired_salary (lines 904-942)
salary_error(salary_text) ==
    IF salary_text = <<>> THEN "error_salary_empty"
    ELSE IF ~IsDigitStr(salary_clean(salary_text)) THEN "error_salary_invalid_format"
    ELSE IF DecimalValue(salary_clean(salary_text)) < 1000 THEN "error_salary_too_low"
    ELSE IF DecimalValue(salary_clean(salary_text)) > 1000000 THEN "error_salary_too_high"
    ELSE "ok"

process_desired_salary(w, ev) ==
    IF ~ev.has_text THEN w
    ELSE LET salary_text == Strip(ev.text)
         IN IF salary_error(salary_text) # "ok" THEN Answer(w, salary_error(salary_text))
            ELSE Answer(set_state(update_data(w, ("desired_salary" :>
                                      DecimalValue(salary_clean(salary_text)))),
                                  "docs_for_driving_abroad"),
                        "ask_docs_for_driving_abroad")

\* a documents toggle that leaves the sentinel in when a document is tapped
toggle_docs_for_driving_abroad_keeps_sentinel(w, ev, order) ==
    LET is_submit == ev.data.tag = "docs_abroad_" /\ ev.data.item = "submit"
        item_id == ev.data.item
    IN IF ~is_submit
       THEN LET selected == Range(Get(w.data, "selected_docs_abroad", <<>>))
            IN IF ev.data.tag # "docs_abroad_" THEN Answer(w, "error_processing")
               ELSE IF ~IsIndex(item_id) THEN Answer(w, "error_processing")
               ELSE IF ~(IndexOf(item_id) < Len(DOCS_FOR_DRIVING_ABROAD))
               THEN Answer(w, "error_invalid_index")
               ELSE LET item == DOCS_FOR_DRIVING_ABROAD[IndexOf(item_id) + 1]
                        toggled == IF item = no_docs_option THEN {no_docs_option}
                                   ELSE IF item \in selected THEN selected \ {item}
                                   ELSE selected \cup {item}
                    IN update_data(w, ("selected_docs_abroad" :> ListOf(toggled, order)))
       ELSE LET selected == Get(w.data, "selected_docs_abroad", <<>>)
            IN IF selected = <<>> THEN Answer(w, "error_no_selection")
               ELSE Answer(set_state(update_data(w, ("docs_for_driving_abroad" :> selected)),
                                     "military_booking"),
                           "ask_military_booking")

toggle_docs_for_driving_abroad(w, ev, order) ==
    LET is_submit == ev.data.tag = "docs_abroad_" /\ ev.data.item = "submit"
        item_id == ev.data.item
    IN IF ~is_submit
       THEN LET selected == Range(Get(w.data, "selected_docs_abroad", <<>>))
            IN IF ev.data.tag # "docs_abroad_" THEN Answer(w, "error_processing")
               ELSE IF ~IsIndex(item_id) THEN Answer(w, "error_processing")
               ELSE IF ~(IndexOf(item_id) < Len(DOCS_FOR_DRIVING_ABROAD))
               THEN Answer(w, "error_invalid_index")
               ELSE LET item == DOCS_FOR_DRIVING_ABROAD[IndexOf(item_id) + 1]
                        rest == selected \ {no_docs_option}
                        toggled == IF item = no_docs_option THEN {no_docs_option}
                                   ELSE IF item \in rest THEN rest \ {item}
                                   ELSE rest \cup {item}
                    IN update_data(w, ("selected_docs_abroad" :> ListOf(toggled, order)))
       ELSE LET selected == Get(w.data, "selected_docs_abroad", <<>>)
            IN IF selected = <<>> THEN Answer(w, "error_no_selection")
               ELSE Answer(set_state(update_data(w, ("docs_for_driving_abroad" :> selected)),
                                     "military_booking"),
                           "ask_military_booking")

process_military_booking(w, ev) ==
    IF ev.data.tag = "military_" /\ ev.data.item \in {"yes", "no"}
    THEN Answer(set_state(update_data(w, ("military_booking" :> (ev.data.item = "yes"))),
                          "description"),
                "ask_description")
    ELSE Answer(w, "error_processing")

\* clean_data_for_firebase of a str or None
clean_data_for_firebase(value) == IF value = NoneStr THEN value ELSE remove_emojis(value)

\* clean_data_for_firebase of a list of str
clean_list(l) == MapSeq(l, clean_data_for_firebase)

prepare_resume_data_for_firebase(data, user_id, username) ==
    LET region_key == Get(data, "place_of_living_region", NoneStr)
        region_name == IF region_key = NoneStr \/ region_key = <<>> THEN NoneStr
                       ELSE Get(REGIONS, region_key, region_key)
        car_types == Get(data, "types_of_cars", NoneStr)
    IN [user_id |-> user_id,
        username |-> username,
        name |-> clean_data_for_firebase(Get(data, "name", NoneStr)),
        phone |-> clean_data_for_firebase(Get(data, "phone", NoneStr)),
        age |-> Get(data, "age", NoneInt),
        place_of_living |->
            [region_key |-> clean_data_for_firebase(region_key),
             region_name |-> clean_data_for_firebase(region_name),
             city |-> clean_data_for_firebase(Get(data, "place_of_living_city", NoneStr))],
        driving_categories |-> clean_list(Get(data, "selected_driver_categories", <<>>)),
        driving_experience |-> Get(data, "driving_experience", EmptyDict),
        semi_trailer_types |-> clean_list(Get(data, "semi_trailer_types", <<>>)),
        types_of_work |-> clean_list(Get(data, "types_of_work", <<>>)),
        types_of_cars |-> IF car_types = NoneStr THEN <<>>
                          ELSE clean_list(_convert_car_types_to_list(car_types)),
        race_duration_preference |-> clean_list(Get(data, "race_duration_preference", <<>>)),
        is_adr_license |-> Get(data, "is_adr_license", FALSE),
        docs_for_driving_abroad |-> clean_list(Get(data, "docs_for_driving_abroad", <<>>)),
        military_booking |-> Get(data, "military_booking", FALSE),
        desired_salary |-> Get(data, "desired_salary", NoneInt),
        description |-> clean_data_for_firebase(Get(data, "description", <<>>))]

\* finalize_resume without the clearing of the FSM context at the end when the
\* save did not succeed
finalize_resume_keeps_session_on_failure(w, message_from, explicit_user_id, outcome) ==
    LET user_id == IF explicit_user_id # NoUser THEN explicit_user_id ELSE message_from
    IN IF user_id = NoUser THEN Answer(w, "error_no_user")
       ELSE LET firebase_data == prepare_resume_data_for_firebase(w.data, user_id,
                                                                   Username(user_id))
                r == add_resume_sync(w.db, firebase_data, outcome)
                w1 == Call([w EXCEPT !.db = r.db], "add_resume", user_id, firebase_data,
                           r.result)
            IN IF r.result
               THEN Answer(clear(Answer(Answer(w1, "resume_display"), "msg_resume_saved")),
                           "msg_bot_greeting")
               ELSE w1

\* outcome: what add_resume does ("ok", "fail": returns None, "raise")
finalize_resume(w, message_from, explicit_user_id, outcome) ==
    LET user_id == IF explicit_user_id # NoUser THEN explicit_user_id ELSE message_from
    IN IF user_id = NoUser THEN Answer(w, "error_no_user")
       ELSE LET firebase_data == prepare_resume_data_for_firebase(w.data, user_id,
                                                                   Username(user_id))
                r == add_resume_sync(w.db, firebase_data, outcome)
                w1 == Call([w EXCEPT !.db = r.db], "add_resume", user_id, firebase_data,
                           r.result)
            IN Answer(clear(Answer(Answer(w1, "resume_display"), "msg_resume_saved")),
                      "msg_bot_greeting")

process_description(w, ev, outcome) ==
    IF ~ev.has_text THEN w
    ELSE LET description == Strip(ev.text)
         IN IF Len(description) > 2000 THEN Answer(w, "error_description_too_long")
            ELSE finalize_resume(update_data(w, ("description" :> description)),
                                 ev.from_user, NoUser, outcome)

skip_description(w, ev, outcome) ==
    IF ev.from_user = NoUser THEN Answer(w, "error_no_user")
    ELSE finalize_resume(update_data(w, ("description" :> <<>>)),
                         ev.msg_from, ev.from_user, outcome)

-----------------------------------------------------------------------------
(* app/edit_resume.py                                                      *)

Piece(cond, upd) == IF cond THEN upd ELSE EmptyDict

Restrict(f, S) == [k \in (DOMAIN f) \cap S |-> f[k]]

\* a list or a str is falsy when empty, None is falsy
Truthy(v) == v # <<>> /\ v # NoneStr

convert_firebase_resume_to_display_format(firebase_data) ==
    LET simple == {"name", "phone", "age", "driving_experience", "semi_trailer_types",
                   "types_of_work", "race_duration_preference", "is_adr_license",
                   "docs_for_driving_abroad", "military_booking", "desired_salary",
                   "description"}
        place_of_living == Get(firebase_data, "place_of_living", EmptyDict)
        types_of_cars == Get(firebase_data, "types_of_cars", <<>>)
    IN Restrict(firebase_data, simple)
       @@ Piece(place_of_living # EmptyDict,
                ("place_of_living_region" :> Get(place_of_living, "region_key", NoneStr))
                @@ ("place_of_living_city" :> Get(place_of_living, "city", NoneStr)))
       @@ Piece(Has(firebase_data, "driving_categories"),
                ("selected_driver_categories" :> Get(firebase_data, "driving_categories", <<>>)))
       @@ Piece(types_of_cars # <<>>, ("types_of_cars" :> JoinComma(types_of_cars)))

handle_edit_resume_menu(w, ev) == Answer(w, "msg_edit_resume_menu")

\* the state handle_edit_field enters for a field, NoState for a field it
\* does not know
EditState(field) ==
    CASE field = "name" -> "name"
      [] field = "phone" -> "phone"
      [] field = "age" -> "age"
      [] field = "location" -> "place_of_living_region"
      [] field = "driving_categories" -> "driving_categories"
      [] field = "type_of_work" -> "type_of_work"
      [] field = "types_of_cars" -> "types_of_cars"
      [] field = "adr" -> "is_adr_license"
      [] field = "race_duration" -> "race_duration_preference"
      [] field = "salary" -> "desired_salary"
      [] field = "docs_abroad" -> "docs_for_driving_abroad"
      [] field = "military" -> "military_booking"
      [] field = "description" -> "description"
      [] OTHER -> NoState

\* the current value handle_edit_field copies into the FSM data for a field
EditPreload(field, display_data) ==
    CASE field = "driving_categories" ->
           ("selected_driver_categories" :> Get(display_data, "selected_driver_categories", <<>>))
      [] field = "type_of_work" ->
           ("types_of_work" :> Get(display_data, "types_of_work", <<>>))
      [] field = "types_of_cars" ->
           ("types_of_cars" :> Get(display_data, "types_of_cars", <<>>))
      [] field = "adr" ->
           ("is_adr_license" :> Get(display_data, "is_adr_license", FALSE))
      [] field = "race_duration" ->
           ("race_duration_preference" :> Get(display_data, "race_duration_preference", <<>>))
      [] field = "salary" ->
           ("desired_salary" :> Get(display_data, "desired_salary", NoneInt))
      [] field = "docs_abroad" ->
           ("docs_for_driving_abroad" :> Get(display_data, "docs_for_driving_abroad", <<>>))
      [] field = "military" ->
           ("military_booking" :> Get(display_data, "military_booking", FALSE))
      [] field = "description" ->
           ("description" :> Get(display_data, "description", <<>>))
      [] OTHER -> EmptyDict

\* outcome: what get_resume does
handle_edit_field(w, ev, outcome) ==
    LET field == ev.data.item
        user_id == ev.from_user
        resume_data == get_resume_sync(w.db, user_id, outcome)
    IN IF user_id = NoUser THEN Answer(w, "error_user_not_found")
       ELSE IF outcome = "raise" THEN Answer(w, "error_edit_field_failed")
       ELSE IF ~Exists(resume_data) THEN Answer(w, "error_resume_not_found")
       ELSE LET display_data == convert_firebase_resume_to_display_format(resume_data)
                w1 == update_data(w, ("editing_resume" :> resume_data)
                                     @@ ("editing_field" :> field)
                                     @@ ("editing_user_id" :> user_id)
                                     @@ ("editing_username" :> Username(user_id)))
            IN IF EditState(field) = NoState THEN w1
               ELSE update_data(set_state(Answer(w1, "ask_edit_value"), EditState(field)),
                                EditPreload(field, display_data))

\* a Save that sends the whole snapshot back
field_updates_sends_snapshot(data) == Get(data, "editing_resume", EmptyDict)

\* field_updates of save_edited_field (lines 422-497)
field_updates(data) ==
    LET editing_resume == Get(data, "editing_resume", NoResume)
        editing_field == Get(data, "editing_field", "")
        region_key == Get(data, "place_of_living_region", NoneStr)
        city == Get(data, "place_of_living_city", NoneStr)
        all_selected == Get(data, "all_selected_categories", <<>>)
        new_categories == IF all_selected # <<>> THEN all_selected
                          ELSE Get(data, "selected_driver_categories", <<>>)
        existing_experience == Get(editing_resume, "driving_experience", EmptyDict)
        new_experience == Get(data, "driving_experience", EmptyDict)
        merged_experience == new_experience @@ existing_experience
        filtered_experience == Restrict(merged_experience, Range(new_categories))
        needs_semi_trailer == needs_additional_survey(new_categories)
        from_state == Get(data, "semi_trailer_types", <<>>)
        semi_trailer_types == IF from_state # <<>> THEN from_state
                              ELSE Get(editing_resume, "semi_trailer_types", <<>>)
    IN CASE editing_field = "name" -> ("name" :> Get(data, "name", NoneStr))
         [] editing_field = "phone" -> ("phone" :> Get(data, "phone", NoneStr))
         [] editing_field = "age" -> ("age" :> Get(data, "age", NoneInt))
         [] editing_field = "location" ->
              Piece(Truthy(region_key) /\ Truthy(city),
                    ("place_of_living" :> [region_key |-> region_key,
                                           region_name |-> Get(REGIONS, region_key, region_key),
                                           city |-> city]))
         [] editing_field = "driving_categories" ->
              ("driving_categories" :> new_categories)
              @@ Piece(filtered_experience # EmptyDict,
                       ("driving_experience" :> filtered_experience))
              @@ (IF needs_semi_trailer
                  THEN Piece(semi_trailer_types # <<>>,
                             ("semi_trailer_types" :> semi_trailer_types))
                  ELSE ("semi_trailer_types" :> <<>>))
         [] editing_field = "type_of_work" ->
              ("types_of_work" :> Get(data, "types_of_work", <<>>))
         [] editing_field = "types_of_cars" ->
              ("types_of_cars" :> _convert_car_types_to_list(Get(data, "types_of_cars", <<>>)))
         [] editing_field = "adr" ->
              ("is_adr_license" :> Get(data, "is_adr_license", FALSE))
         [] editing_field = "race_duration" ->
              ("race_duration_preference" :> Get(data, "race_duration_preference", <<>>))
         [] editing_field = "salary" ->
              ("desired_salary" :> Get(data, "desired_salary", NoneInt))
         [] editing_field = "docs_abroad" ->
              ("docs_for_driving_abroad" :> Get(data, "docs_for_driving_abroad", <<>>))
         [] editing_field = "military" ->
              ("military_booking" :> Get(data, "military_booking", FALSE))
         [] editing_field = "description" ->
              ("description" :> Get(data, "description", <<>>))
         [] OTHER -> EmptyDict

\* save_edited_field with the update keyed by the user on the message
save_edited_field_keyed_by_message(w, message_from, outcome) ==
    LET editing_resume == Get(w.data, "editing_resume", NoResume)
        editing_field == Get(w.data, "editing_field", "")
        editing_user_id == Get(w.data, "editing_user_id", NoUser)
    IN IF ~Exists(editing_resume) \/ editing_field = "" \/ editing_user_id = NoUser
       THEN Answer(w, "error_edit_data_not_found")
       ELSE IF outcome = "raise" THEN Answer(w, "error_resume_update_failed")
       ELSE LET r == update_resume_sync(w.db, message_from, field_updates(w.data), outcome)
                w1 == Call([w EXCEPT !.db = r.db], "update_resume", message_from,
                           field_updates(w.data), r.result)
            IN IF r.result
               THEN clear(Answer(Answer(w1, "msg_resume_updated"), "resume_text"))
               ELSE clear(Answer(w1, "error_resume_update_failed"))

\* save_edited_field with the clearing of the FSM context left out when the
\* update fails
save_edited_field_keeps_session_on_failure(w, message_from, outcome) ==
    LET editing_resume == Get(w.data, "editing_resume", NoResume)
        editing_field == Get(w.data, "editing_field", "")
        editing_user_id == Get(w.data, "editing_user_id", NoUser)
    IN IF ~Exists(editing_resume) \/ editing_field = "" \/ editing_user_id = NoUser
       THEN Answer(w, "error_edit_data_not_found")
       ELSE IF outcome = "raise" THEN Answer(w, "error_resume_update_failed")
       ELSE LET r == update_resume_sync(w.db, editing_user_id, field_updates(w.data), outcome)
                w1 == Call([w EXCEPT !.db = r.db], "update_resume", editing_user_id,
                           field_updates(w.data), r.result)
            IN IF r.result
               THEN clear(Answer(Answer(w1, "msg_resume_updated"), "resume_text"))
               ELSE Answer(w1, "error_resume_update_failed")

\* message_from: the from_user of the message handed to Save; outcome: what
\* update_resume does ("ok", "fail": returns False, "raise")
save_edited_field(w, message_from, outcome) ==
    LET editing_resume == Get(w.data, "editing_resume", NoResume)
        editing_field == Get(w.data, "editing_field", "")
        editing_user_id == Get(w.data, "editing_user_id", NoUser)
    IN IF ~Exists(editing_resume) \/ editing_field = "" \/ editing_user_id = NoUser
       THEN Answer(w, "error_edit_data_not_found")
       ELSE IF outcome = "raise" THEN Answer(w, "error_resume_update_failed")
       ELSE LET r == update_resume_sync(w.db, editing_user_id, field_updates(w.data), outcome)
                w1 == Call([w EXCEPT !.db = r.db], "update_resume", editing_user_id,
                           field_updates(w.data), r.result)
            IN IF r.result
               THEN clear(Answer(Answer(w1, "msg_resume_updated"), "resume_text"))
               ELSE clear(Answer(w1, "error_resume_update_failed"))

editing_field_of(w) == Get(w.data, "editing_field", "")

process_name_wrapper(w, ev, outcome) ==
    IF editing_field_of(w) = "name"
    THEN IF ~ev.has_text THEN w
         ELSE LET name == Strip(ev.text)
              IN IF name_error(name) # "ok" THEN Answer(w, name_error(name))
                 ELSE save_edited_field(update_data(w, ("name" :> name)), ev.from_user, outcome)
    ELSE process_name(w, ev)

process_phone_wrapper(w, ev, outcome) ==
    IF editing_field_of(w) = "phone"
    THEN IF ev.contact
         THEN save_edited_field(update_data(w, ("phone" :> ContactPhone)), ev.from_user, outcome)
         ELSE IF ~ev.has_text THEN w
         ELSE IF ~MatchesPhone(ev.text) THEN Answer(w, "error_invalid_phone")
         ELSE save_edited_field(update_data(w, ("phone" :> ev.text)), ev.from_user, outcome)
    ELSE process_phone(w, ev)

\* the edit branch parses with int(), so a sign is accepted (lines 686-706)
process_age_wrapper(w, ev, outcome) ==
    IF editing_field_of(w) = "age"
    THEN IF ~ev.has_text THEN w
         ELSE LET age_text == Strip(ev.text)
              IN IF age_text = <<>> THEN Answer(w, "error_age_empty")
                 ELSE IF AnyChar(age_text, IsSpace) THEN Answer(w, "error_age_has_spaces")
                 ELSE IF ~ParsesAsInt(age_text) THEN Answer(w, "error_invalid_age")
                 ELSE IF IntValue(age_text) < 18 \/ IntValue(age_text) > 100
                 THEN Answer(w, "error_invalid_age")
                 ELSE save_edited_field(update_data(w, ("age" :> IntValue(age_text))),
                                        ev.from_user, outcome)
    ELSE process_age(w, ev)

process_place_of_city_wrapper(w, ev, outcome) ==
    IF editing_field_of(w) = "location"
    THEN IF ~ev.has_text THEN w
         ELSE LET city == Strip(ev.text)
              IN IF city_error(city) # "ok" THEN Answer(w, city_error(city))
                 ELSE save_edited_field(update_data(w, ("place_of_living_city" :> city)),
                                        ev.from_user, outcome)
    ELSE process_place_of_city(w, ev)

process_types_of_cars_wrapper(w, ev, outcome) ==
    IF editing_field_of(w) = "types_of_cars"
    THEN IF ~ev.has_text THEN w
         ELSE LET text == Strip(ev.text)
              IN IF cars_error(text) # "ok" THEN Answer(w, cars_error(text))
                 ELSE save_edited_field(update_data(w, ("types_of_cars" :> text)),
                                        ev.from_user, outcome)
    ELSE process_types_of_cars(w, ev)

process_desired_salary_wrapper(w, ev, outcome) ==
    IF editing_field_of(w) = "salary"
    THEN IF ~ev.has_text THEN w
         ELSE LET salary_text == Strip(ev.text)
              IN IF salary_error(salary_text) # "ok" THEN Answer(w, salary_error(salary_text))
                 ELSE save_edited_field(update_data(w, ("desired_salary" :>
                                            DecimalValue(salary_clean(salary_text)))),
                                        ev.from_user, outcome)
    ELSE process_desired_salary(w, ev)

process_description_wrapper(w, ev, outcome) ==
    IF editing_field_of(w) = "description"
    THEN IF ~ev.has_text THEN w
         ELSE LET description == Strip(ev.text)
              IN IF Len(description) > 2000 THEN Answer(w, "error_description_too_long")
                 ELSE save_edited_field(update_data(w, ("description" :> description)),
                                        ev.from_user, outcome)
    ELSE process_description(w, ev, outcome)

process_place_of_region_callback_wrapper(w, ev) == process_place_of_region_callback(w, ev)

process_adr_license_wrapper(w, ev, outcome) ==
    IF editing_field_of(w) = "adr"
    THEN IF ev.data.tag = "adr_" /\ ev.data.item \in {"yes", "no"}
         THEN save_edited_field(
                  Answer(update_data(w, ("is_adr_license" :> (ev.data.item = "yes"))),
                         "msg_adr"),
                  ev.msg_from, outcome)
         ELSE Answer(w, "error_processing")
    ELSE process_adr_license(w, ev)

process_military_booking_wrapper(w, ev, outcome) ==
    IF editing_field_of(w) = "military"
    THEN IF ev.data.tag = "military_" /\ ev.data.item \in {"yes", "no"}
         THEN save_edited_field(
                  Answer(update_data(w, ("military_booking" :> (ev.data.item = "yes"))),
                         "msg_military"),
                  ev.msg_from, outcome)
         ELSE Answer(w, "error_processing")
    ELSE process_military_booking(w, ev)

toggle_driving_categories_wrapper(w, ev, order) ==
    IF editing_field_of(w) = "driving_categories"
    THEN LET is_submit == ev.data.tag = "driver_categories_" /\ ev.data.item = "submit"
             w1 == toggle_selection(w, ev, "driver_categories_", "selected_driver_categories",
                                    DRIVING_CATEGORIES, order)
             selected == Get(w1.data, "selected_driver_categories", <<>>)
             editing_resume == Get(w.data, "editing_resume", EmptyDict)
             existing_exp == Get(editing_resume, "driving_experience", EmptyDict)
         IN IF is_submit /\ selected # <<>>
            THEN set_state(Answer(update_data(w1, ("current_category_index" :> 0)
                                                  @@ ("categories_to_process" :> selected)
                                                  @@ ("driving_experience" :> existing_exp)
                                                  @@ ("all_selected_categories" :> selected)),
                                  "ask_driving_exp"),
                           "driving_exp_per_category")
            ELSE w1
    ELSE toggle_driving_categories(w, ev, order)

\* the edit branch of the two multi-select wrappers that save on submit
toggle_and_save(w, ev, prefix, selection_field, field_name, options, order, outcome) ==
    IF ev.data.tag = prefix /\ ev.data.item = "submit"
    THEN LET selected == Get(w.data, selection_field, <<>>)
         IN IF selected = <<>> THEN Answer(w, "error_no_selection")
            ELSE save_edited_field(Answer(update_data(w, (field_name :> selected)),
                                          "msg_selected"),
                                   ev.msg_from, outcome)
    ELSE toggle_selection(w, ev, prefix, selection_field, options, order)

toggle_type_of_work_wrapper(w, ev, order, outcome) ==
    IF editing_field_of(w) = "type_of_work"
    THEN toggle_and_save(w, ev, "type_of_work_", "selected_types_of_work", "types_of_work",
                         TYPES_OF_WORK, order, outcome)
    ELSE toggle_type_of_work(w, ev, order)

toggle_race_duration_wrapper(w, ev, order, outcome) ==
    IF editing_field_of(w) = "race_duration"
    THEN toggle_and_save(w, ev, "race_duration_", "selected_race_durations",
                         "race_duration_preference", RACE_DURATION_OPTIONS, order, outcome)
    ELSE toggle_race_duration(w, ev, order)

toggle_docs_for_driving_abroad_wrapper(w, ev, order, outcome) ==
    IF editing_field_of(w) = "docs_abroad"
    THEN IF ev.data.tag = "docs_abroad_" /\ ev.data.item = "submit"
         THEN LET selected == Get(w.data, "selected_docs_abroad", <<>>)
              IN IF selected = <<>> THEN Answer(w, "error_no_selection")
                 ELSE save_edited_field(
                          Answer(update_data(w, ("docs_for_driving_abroad" :> selected)),
                                 "msg_selected"),
                          ev.msg_from, outcome)
         ELSE toggle_docs_for_driving_abroad(w, ev, order)
    ELSE toggle_docs_for_driving_abroad(w, ev, order)

process_driving_exp_per_category_wrapper(w, ev, outcome) ==
    LET data == w.data
        categories_to_process == Get(data, "categories_to_process", <<>>)
        stored_all == Get(data, "all_selected_categories", <<>>)
        all_selected == IF stored_all # <<>> THEN stored_all
                        ELSE Get(data, "selected_driver_categories", <<>>)
        w1 == update_data(w, ("all_selected_categories" :> all_selected)
                             @@ ("selected_driver_categories" :> categories_to_process))
        current_index == Get(data, "current_category_index", 0)
        editing_resume == Get(data, "editing_resume", EmptyDict)
        in_state == Get(data, "driving_experience", EmptyDict)
        experience_dict == IF in_state # EmptyDict THEN in_state
                           ELSE Get(editing_resume, "driving_experience", EmptyDict)
        years_text == Strip(ev.text)
        existing_semi_trailer == Get(editing_resume, "semi_trailer_types", <<>>)
    IN IF editing_field_of(w) # "driving_categories"
       THEN process_driving_exp_per_category(w, ev)
       ELSE IF categories_to_process = <<>> THEN save_edited_field(w, ev.from_user, outcome)
       ELSE IF ~ev.has_text THEN w1
       ELSE IF years_error(years_text) # "ok" THEN Answer(w1, years_error(years_text))
       ELSE IF ~(current_index < Len(categories_to_process)) THEN w1
       ELSE LET current_cat == categories_to_process[current_index + 1]
                new_dict == Upd(experience_dict, (current_cat :> FloatTenths(years_text)))
                w2 == update_data(w1, ("driving_experience" :> new_dict))
                next_index == current_index + 1
                restored == ("driving_experience" :> new_dict)
                            @@ ("selected_driver_categories" :> all_selected)
            IN IF next_index < Len(categories_to_process)
               THEN Answer(update_data(w2, ("current_category_index" :> next_index)),
                           "ask_driving_exp")
               ELSE IF ~needs_additional_survey(all_selected)
               THEN save_edited_field(update_data(w2, restored), ev.from_user, outcome)
               ELSE IF existing_semi_trailer # <<>>
               THEN save_edited_field(
                        update_data(w2, restored
                                        @@ ("semi_trailer_types" :> existing_semi_trailer)),
                        ev.from_user, outcome)
               ELSE set_state(Answer(update_data(w2, ("selected_driver_categories" :>
                                                       all_selected)),
                                     "ask_semi_trailer_types"),
                              "driving_semi_trailer_types")

process_driving_semi_trailer_types_wrapper(w, ev, order, outcome) ==
    LET data == w.data
        selected_types == Get(data, "semi_trailer_selection", <<>>)
        editing_resume == Get(data, "editing_resume", EmptyDict)
        in_state == Get(data, "driving_experience", EmptyDict)
        current_experience == IF in_state # EmptyDict THEN in_state
                              ELSE Get(editing_resume, "driving_experience", EmptyDict)
        stored_all == Get(data, "all_selected_categories", <<>>)
        all_selected == IF stored_all # <<>> THEN stored_all
                        ELSE Get(data, "selected_driver_categories", <<>>)
    IN IF editing_field_of(w) # "driving_categories"
       THEN process_driving_semi_trailer_types(w, ev, order)
       ELSE IF ~(ev.data.tag = "semi_trailer_" /\ ev.data.item = "submit")
       THEN toggle_selection(w, ev, "semi_trailer_", "semi_trailer_selection",
                             SEMI_TRAILERS_TYPES, order)
       ELSE IF selected_types = <<>> THEN Answer(w, "error_no_semi_trailer")
       ELSE save_edited_field(
                update_data(w, ("semi_trailer_types" :> selected_types)
                               @@ ("driving_experience" :> current_experience)
                               @@ ("selected_driver_categories" :> all_selected)),
                ev.msg_from, outcome)

skip_description_wrapper(w, ev, outcome) ==
    IF editing_field_of(w) = "description"
    THEN save_edited_field(update_data(w, ("description" :> <<>>)), ev.msg_from, outcome)
    ELSE skip_description(w, ev, outcome)

-----------------------------------------------------------------------------
(* app/bot.py: the handlers registered by decorator.                       *)

command_start_handler(w, ev, outcome) ==
    LET w1 == clear(w)
        resume_data == get_resume_sync(w.db, ev.from_user, outcome)
    IN IF outcome = "raise" THEN w1
       ELSE IF Exists(resume_data) THEN Answer(w1, "msg_bot_greeting_with_resume")
       ELSE Answer(w1, "msg_bot_greeting")

handle_create_resume_button(w, ev, outcome) ==
    LET resume_data == get_resume_sync(w.db, ev.from_user, outcome)
    IN IF outcome = "raise" THEN w
       ELSE IF ev.from_user # NoUser /\ Exists(resume_data) THEN Answer(w, "resume_text")
       ELSE Answer(set_state(Answer(w, "msg_resume_start"), "name"), "ask_name")

handle_my_resume_button(w, ev, outcome) ==
    LET resume_data == get_resume_sync(w.db, ev.from_user, outcome)
    IN IF ev.from_user = NoUser THEN Answer(w, "msg_no_resume")
       ELSE IF outcome = "raise" THEN w
       ELSE IF Exists(resume_data) THEN Answer(w, "resume_text")
       ELSE Answer(Answer(w, "msg_no_resume"), "msg_bot_greeting")

handle_delete_resume(w, ev, outcome) ==
    LET r == delete_resume_sync(w.db, ev.from_user, outcome)
        w1 == Call([w EXCEPT !.db = r.db], "delete_resume", ev.from_user, EmptyDict, r.result)
    IN IF ev.from_user = NoUser THEN Answer(w, "error_no_user")
       ELSE IF outcome = "raise" THEN Answer(w, "error_delete")
       ELSE IF r.result THEN Answer(w1, "msg_resume_deleted")
       ELSE Answer(w1, "error_delete")

-----------------------------------------------------------------------------
(* The dispatcher: which handler an event reaches (bot.py, lines 108, 141, *)
(* 189, 231, 274-275, 291-326).  Message handlers of the survey are        *)
(* filtered by FSM state, callback handlers by the callback data only.     *)

Route(ev, current_state) ==
    IF ev.kind = "message"
    THEN IF ev.has_text /\ ev.text = start_command THEN "command_start_handler"
         ELSE IF ev.has_text /\ ev.text = button_create_resume
         THEN "handle_create_resume_button"
         ELSE IF ev.has_text /\ ev.text = button_my_resume THEN "handle_my_resume_button"
         ELSE CASE current_state = "name" -> "process_name_wrapper"
                [] current_state = "phone" -> "process_phone_wrapper"
                [] current_state = "age" -> "process_age_wrapper"
                [] current_state = "place_of_living_city" -> "process_place_of_city_wrapper"
                [] current_state = "driving_exp_per_category" ->
                     "process_driving_exp_per_category_wrapper"
                [] current_state = "types_of_cars" -> "process_types_of_cars_wrapper"
                [] current_state = "desired_salary" -> "process_desired_salary_wrapper"
                [] current_state = "description" -> "process_description_wrapper"
                [] OTHER -> "unhandled"
    ELSE CASE ev.data.tag = "delete_resume_confirm" /\ ev.data.item = "" ->
                "handle_delete_resume"
           [] ev.data.tag = "edit_resume_menu" /\ ev.data.item = "" -> "handle_edit_resume_menu"
           [] ev.data.tag = "edit_field_" -> "handle_edit_field"
           [] ev.data.tag = "region_" -> "process_place_of_region_callback_wrapper"
           [] ev.data.tag = "driver_categories_" -> "toggle_driving_categories_wrapper"
           [] ev.data.tag = "semi_trailer_" -> "process_driving_semi_trailer_types_wrapper"
           [] ev.data.tag = "type_of_work_" -> "toggle_type_of_work_wrapper"
           [] ev.data.tag = "adr_" /\ ev.data.item \in {"yes", "no"} ->
                "process_adr_license_wrapper"
           [] ev.data.tag = "race_duration_" -> "toggle_race_duration_wrapper"
           [] ev.data.tag = "docs_abroad_" -> "toggle_docs_for_driving_abroad_wrapper"
           [] ev.data.tag = "military_" /\ ev.data.item \in {"yes", "no"} ->
                "process_military_booking_wrapper"
           [] ev.data.tag = "skip_description" /\ ev.data.item = "" ->
                "skip_description_wrapper"
           [] OTHER -> "unhandled"

\* the handler h run on w
Handler(h, w, ev, outcome, order) ==
    CASE h = "command_start_handler" -> command_start_handler(w, ev, outcome)
      [] h = "handle_create_resume_button" -> handle_create_resume_button(w, ev, outcome)
      [] h = "handle_my_resume_button" -> handle_my_resume_button(w, ev, outcome)
      [] h = "handle_delete_resume" -> handle_delete_resume(w, ev, outcome)
      [] h = "handle_edit_resume_menu" -> handle_edit_resume_menu(w, ev)
      [] h = "handle_edit_field" -> handle_edit_field(w, ev, outcome)
      [] h = "process_name_wrapper" -> process_name_wrapper(w, ev, outcome)
      [] h = "process_phone_wrapper" -> process_phone_wrapper(w, ev, outcome)
      [] h = "process_age_wrapper" -> process_age_wrapper(w, ev, outcome)
      [] h = "process_place_of_region_callback_wrapper" ->
           process_place_of_region_callback_wrapper(w, ev)
      [] h = "process_place_of_city_wrapper" -> process_place_of_city_wrapper(w, ev, outcome)
      [] h = "toggle_driving_categories_wrapper" ->
           toggle_driving_categories_wrapper(w, ev, order)
      [] h = "process_driving_exp_per_category_wrapper" ->
           process_driving_exp_per_category_wrapper(w, ev, outcome)
      [] h = "process_driving_semi_trailer_types_wrapper" ->
           process_driving_semi_trailer_types_wrapper(w, ev, order, outcome)
      [] h = "toggle_type_of_work_wrapper" -> toggle_type_of_work_wrapper(w, ev, order, outcome)
      [] h = "process_types_of_cars_wrapper" -> process_types_of_cars_wrapper(w, ev, outcome)
      [] h = "process_adr_license_wrapper" -> process_adr_license_wrapper(w, ev, outcome)
      [] h = "toggle_race_duration_wrapper" ->
           toggle_race_duration_wrapper(w, ev, order, outcome)
      [] h = "process_desired_salary_wrapper" -> process_desired_salary_wrapper(w, ev, outcome)
      [] h = "toggle_docs_for_driving_abroad_wrapper" ->
           toggle_docs_for_driving_abroad_wrapper(w, ev, order, outcome)
      [] h = "process_military_booking_wrapper" ->
           process_military_booking_wrapper(w, ev, outcome)
      [] h = "process_description_wrapper" -> process_description_wrapper(w, ev, outcome)
      [] h = "skip_description_wrapper" -> skip_description_wrapper(w, ev, outcome)
      [] OTHER -> w

\* handlers whose result depends on what the persistence layer does
UsesOutcome(h) ==
    h \in {"command_start_handler", "handle_create_resume_button", "handle_my_resume_button",
           "handle_delete_resume", "handle_edit_field", "process_name_wrapper",
           "process_phone_wrapper", "process_age_wrapper", "process_place_of_city_wrapper",
           "process_driving_exp_per_category_wrapper",
           "process_driving_semi_trailer_types_wrapper", "toggle_type_of_work_wrapper",
           "process_types_of_cars_wrapper", "process_adr_license_wrapper",
           "toggle_race_duration_wrapper", "process_desired_salary_wrapper",
           "toggle_docs_for_driving_abroad_wrapper", "process_military_booking_wrapper",
           "process_description_wrapper", "skip_description_wrapper"}

\* handlers that turn a set into a list
UsesOrder(h) ==
    h \in {"toggle_driving_categories_wrapper", "process_driving_semi_trailer_types_wrapper",
           "toggle_type_of_work_wrapper", "toggle_race_duration_wrapper",
           "toggle_docs_for_driving_abroad_wrapper"}

-----------------------------------------------------------------------------
(* Deliveries.  One step is one update fed to the dispatcher: the clock    *)
(* read, SecurityMiddleware.__call__, and, when it forwards, the handler   *)
(* the event is routed to, run to its end.                                 *)

Text(text) ==
    [kind |-> "message", has_text |-> TRUE, text |-> text, contact |-> FALSE, data |-> NoData]

\* a message without text: a photo, a sticker
Photo ==
    [kind |-> "message", has_text |-> FALSE, text |-> <<>>, contact |-> FALSE, data |-> NoData]

\* the message the "share contact" button sends
Contact ==
    [kind |-> "message", has_text |-> FALSE, text |-> <<>>, contact |-> TRUE, data |-> NoData]

Tap(tag, item) ==
    [kind |-> "callback", has_text |-> FALSE, text |-> <<>>, contact |-> FALSE,
     data |-> [tag |-> tag, item |-> item]]

\* the event as the middleware and the handlers see it; observer is where
\* the middleware is attached: "update" (bot.py, line 105) or "event"
Received(e, u, observer) ==
    [kind |-> e.kind, has_text |-> e.has_text, text |-> e.text, contact |-> e.contact,
     data |-> e.data, from_user |-> u,
     msg_from |-> IF e.kind = "callback" THEN BotId ELSE u,
     seen_as |-> IF observer = "update" THEN "Update"
                 ELSE IF e.kind = "callback" THEN "CallbackQuery" ELSE "Message"]

NoEvent == Received(Photo, NoUser, "update")

\* last: the latest delivery (the event, the gate's verdict and the checks
\* that failed, the handler routed to, what it sent and the persistence
\* calls it made)
NoDelivery == [ev |-> NoEvent, verdict |-> "none", failed |-> {}, handler |-> "none",
               sent |-> {}, calls |-> <<>>]

IsCategoryTap(ev) ==
    ev.kind = "callback" /\ ev.data.tag = "driver_categories_" /\ ev.data.item # "submit"

\* the bot as a record of its variables
Bot ==
    [now |-> now, user_activities |-> user_activities, last_cleanup |-> last_cleanup,
     fsm_state |-> fsm_state, fsm_data |-> fsm_data, resumes |-> resumes, last |-> last,
     taps |-> taps]

\* the bot after the update ev of user u, fed dt after the previous one;
\* h is the handler the dispatcher routes ev to and Run what that handler
\* does
Dispatch(b, wl, bl, u, ev, dt, outcome, order, Run(_, _, _, _, _)) ==
    LET Settled(t, h, g, w) ==
          [now |-> t,
           user_activities |-> g.acts,
           last_cleanup |-> g.lc,
           fsm_state |-> [b.fsm_state EXCEPT ![u] = w.state],
           fsm_data |-> [b.fsm_data EXCEPT ![u] = w.data],
           resumes |-> w.db,
           last |-> [ev |-> ev, verdict |-> g.verdict, failed |-> g.failed_set,
                     handler |-> h, sent |-> w.sent, calls |-> w.calls],
           taps |-> [b.taps EXCEPT ![u] =
                       IF g.verdict # "forward" THEN @
                       ELSE IF h = "handle_edit_field" THEN <<>>
                       ELSE IF IsCategoryTap(ev) THEN Append(@, ev.data.item)
                       ELSE @]]
        Served(t, h, g, w0) ==
          Settled(t, h, g,
                  IF g.verdict = "forward" THEN Run(h, w0, ev, outcome, order) ELSE w0)
        At(t, current_state) ==
          Served(t, Route(ev, current_state),
                 SecurityMiddleware(b.user_activities, b.last_cleanup, wl, bl, ev, t,
                                    current_state),
                 [state |-> current_state, data |-> b.fsm_data[u], db |-> b.resumes,
                  sent |-> {}, calls |-> <<>>])
    IN At(b.now + dt, b.fsm_state[u])

\* one delivery d = [u, ev, dt, outcome, order] made to the bot: the update
\* ev of user d.u, fed d.dt after the previous one
Deliver(d, env, Run(_, _, _, _, _)) ==
    LET Becomes(b) ==
          /\ now' = b.now
          /\ user_activities' = b.user_activities
          /\ last_cleanup' = b.last_cleanup
          /\ fsm_state' = b.fsm_state
          /\ fsm_data' = b.fsm_data
          /\ resumes' = b.resumes
          /\ last' = b.last
          /\ taps' = b.taps
    IN /\ now + d.dt <= env.horizon
       /\ IsCategoryTap(d.ev) => Len(taps[d.u]) < MaxTaps
       /\ Becomes(Dispatch(Bot, whitelist, blacklist, d.u, d.ev, d.dt, d.outcome, d.order,
                           Run))
       /\ UNCHANGED <<whitelist, blacklist>>

\* the deliveries of the environment env that the dispatcher routes to
\* handler h
Deliveries(h, env) ==
    {d \in {[u |-> u, ev |-> Received(e, u, env.observer), dt |-> dt,
             outcome |-> outcome, order |-> order] :
               u \in env.users, e \in env.events, dt \in env.delays,
               outcome \in IF UsesOutcome(h) THEN env.outcomes ELSE {"ok"},
               order \in IF UsesOrder(h) THEN env.orders ELSE {"asc"}} :
       d.u \in DOMAIN fsm_state /\ Route(d.ev, fsm_state[d.u]) = h}

CommandStartHandler(env) ==
    \E d \in Deliveries("command_start_handler", env) :
      Deliver(d, env, LAMBDA h, w, ev, outcome, order : command_start_handler(w, ev, outcome))

HandleCreateResumeButton(env) ==
    \E d \in Deliveries("handle_create_resume_button", env) :
      Deliver(d, env,
              LAMBDA h, w, ev, outcome, order : handle_create_resume_button(w, ev, outcome))

HandleMyResumeButton(env) ==
    \E d \in Deliveries("handle_my_resume_button", env) :
      Deliver(d, env,
              LAMBDA h, w, ev, outcome, order : handle_my_resume_button(w, ev, outcome))

HandleDeleteResume(env) ==
    \E d \in Deliveries("handle_delete_resume", env) :
      Deliver(d, env, LAMBDA h, w, ev, outcome, order : handle_delete_resume(w, ev, outcome))

HandleEditResumeMenu(env) ==
    \E d \in Deliveries("handle_edit_resume_menu", env) :
      Deliver(d, env, LAMBDA h, w, ev, outcome, order : handle_edit_resume_menu(w, ev))

HandleEditField(env) ==
    \E d \in Deliveries("handle_edit_field", env) :
      Deliver(d, env, LAMBDA h, w, ev, outcome, order : handle_edit_field(w, ev, outcome))

ProcessNameWrapper(env) ==
    \E d \in Deliveries("process_name_wrapper", env) :
      Deliver(d, env, LAMBDA h, w, ev, outcome, order : process_name_wrapper(w, ev, outcome))

ProcessPhoneWrapper(env) ==
    \E d \in Deliveries("process_phone_wrapper", env) :
      Deliver(d, env, LAMBDA h, w, ev, outcome, order : process_phone_wrapper(w, ev, outcome))

ProcessAgeWrapper(env) ==
    \E d \in Deliveries("process_age_wrapper", env) :
      Deliver(d, env, LAMBDA h, w, ev, outcome, order : process_age_wrapper(w, ev, outcome))

ProcessPlaceOfRegionCallbackWrapper(env) ==
    \E d \in Deliveries("process_place_of_region_callback_wrapper", env) :
      Deliver(d, env,
              LAMBDA h, w, ev, outcome, order : process_place_of_region_callback_wrapper(w, ev))

ProcessPlaceOfCityWrapper(env) ==
    \E d \in Deliveries("process_place_of_city_wrapper", env) :
      Deliver(d, env,
              LAMBDA h, w, ev, outcome, order : process_place_of_city_wrapper(w, ev, outcome))

ToggleDrivingCategoriesWrapper(env) ==
    \E d \in Deliveries("toggle_driving_categories_wrapper", env) :
      Deliver(d, env,
              LAMBDA h, w, ev, outcome, order : toggle_driving_categories_wrapper(w, ev, order))

ProcessDrivingExpPerCategoryWrapper(env) ==
    \E d \in Deliveries("process_driving_exp_per_category_wrapper", env) :
      Deliver(d, env,
              LAMBDA h, w, ev, outcome, order :
                process_driving_exp_per_category_wrapper(w, ev, outcome))

ProcessDrivingSemiTrailerTypesWrapper(env) ==
    \E d \in Deliveries("process_driving_semi_trailer_types_wrapper", env) :
      Deliver(d, env,
              LAMBDA h, w, ev, outcome, order :
                process_driving_semi_trailer_types_wrapper(w, ev, order, outcome))

ToggleTypeOfWorkWrapper(env) ==
    \E d \in Deliveries("toggle_type_of_work_wrapper", env) :
      Deliver(d, env,
              LAMBDA h, w, ev, outcome, order :
                toggle_type_of_work_wrapper(w, ev, order, outcome))

ProcessTypesOfCarsWrapper(env) ==
    \E d \in Deliveries("process_types_of_cars_wrapper", env) :
      Deliver(d, env,
              LAMBDA h, w, ev, outcome, order : process_types_of_cars_wrapper(w, ev, outcome))

ProcessAdrLicenseWrapper(env) ==
    \E d \in Deliveries("process_adr_license_wrapper", env) :
      Deliver(d, env,
              LAMBDA h, w, ev, outcome, order : process_adr_license_wrapper(w, ev, outcome))

ToggleRaceDurationWrapper(env) ==
    \E d \in Deliveries("toggle_race_duration_wrapper", env) :
      Deliver(d, env,
              LAMBDA h, w, ev, outcome, order :
                toggle_race_duration_wrapper(w, ev, order, outcome))

ProcessDesiredSalaryWrapper(env) ==
    \E d \in Deliveries("process_desired_salary_wrapper", env) :
      Deliver(d, env,
              LAMBDA h, w, ev, outcome, order : process_desired_salary_wrapper(w, ev, outcome))

ToggleDocsForDrivingAbroadWrapper(env) ==
    \E d \in Deliveries("toggle_docs_for_driving_abroad_wrapper", env) :
      Deliver(d, env,
              LAMBDA h, w, ev, outcome, order :
                toggle_docs_for_driving_abroad_wrapper(w, ev, order, outcome))

ProcessMilitaryBookingWrapper(env) ==
    \E d \in Deliveries("process_military_booking_wrapper", env) :
      Deliver(d, env,
              LAMBDA h, w, ev, outcome, order :
                process_military_booking_wrapper(w, ev, outcome))

ProcessDescriptionWrapper(env) ==
    \E d \in Deliveries("process_description_wrapper", env) :
      Deliver(d, env,
              LAMBDA h, w, ev, outcome, order : process_description_wrapper(w, ev, outcome))

SkipDescriptionWrapper(env) ==
    \E d \in Deliveries("skip_description_wrapper", env) :
      Deliver(d, env,
              LAMBDA h, w, ev, outcome, order : skip_description_wrapper(w, ev, outcome))

\* an event no handler is registered for
Unhandled(env) ==
    \E d \in Deliveries("unhandled", env) :
      Deliver(d, env, LAMBDA h, w, ev, outcome, order : w)

-----------------------------------------------------------------------------
(* The gate on its own: SecurityMiddleware called with the Message or the  *)
(* CallbackQuery, as __call__ expects (lines 374-383).  User 2 is          *)
(* whitelisted, user 1 is not; the collection is empty.                    *)

NoActivities == [u \in Users |-> AbsentActivity]

NoResumes == [u \in Users |-> NoResume]

\* the bot as constructed, over the collection db
Constructed(db) ==
    [now |-> 0, user_activities |-> NoActivities, last_cleanup |-> 0,
     fsm_state |-> [u \in Users |-> NoState], fsm_data |-> [u \in Users |-> EmptyDict],
     resumes |-> db, last |-> NoDelivery, taps |-> [u \in Users |-> <<>>]]

StartsAs(b, wl, bl) ==
    /\ now = b.now
    /\ user_activities = b.user_activities
    /\ last_cleanup = b.last_cleanup
    /\ whitelist = wl
    /\ blacklist = bl
    /\ fsm_state = b.fsm_state
    /\ fsm_data = b.fsm_data
    /\ resumes = b.resumes
    /\ last = b.last
    /\ taps = b.taps

SampleName == <<"a", " ", "b">>

GateEnv ==
    [users |-> {1},
     observer |-> "event",
     events |-> {Photo, Text(SampleName), Text(button_create_resume),
                 Tap("edit_resume_menu", "")},
     delays |-> {0, 6},
     outcomes |-> {"ok"},
     orders |-> {"asc"},
     horizon |-> GateHorizon]

InitGate == StartsAs(Constructed(NoResumes), {2}, {})

NextGate ==
    \/ HandleCreateResumeButton(GateEnv)
    \/ HandleEditResumeMenu(GateEnv)
    \/ Unhandled(GateEnv)

SpecGate == InitGate /\ [][NextGate]_vars

-----------------------------------------------------------------------------
(* Claims about the gate.                                                  *)

\* the step delivers an event of user u to the gate
From(u) == last'.ev.from_user = u /\ last'.verdict # "none"

\* u is under a temporary block at instant t
BlockedAt(u, t) ==
    /\ user_activities[u].present
    /\ user_activities[u].blocked_until # NoTime
    /\ t < user_activities[u].blocked_until

GateRecordUnchanged(u) ==
    /\ user_activities'[u].suspicious_score = user_activities[u].suspicious_score
    /\ user_activities'[u].request_times = user_activities[u].request_times
    /\ user_activities'[u].identical_messages = user_activities[u].identical_messages
    /\ user_activities'[u].callback_times = user_activities[u].callback_times
    /\ user_activities'[u].state_changes = user_activities[u].state_changes

\* C1: while a non-whitelisted user's blocked_until lies in the future,
\* every event of that user is dropped: no handler runs, and the Session,
\* the suspicion score and the request windows stay as they were.
C1_BlockedUserDropped ==
    [][\A u \in Users :
         (From(u) /\ u \notin whitelist /\ BlockedAt(u, now'))
         => /\ last'.verdict # "forward"
            /\ last'.sent = {} /\ last'.calls = <<>>
            /\ fsm_state'[u] = fsm_state[u]
            /\ fsm_data'[u] = fsm_data[u]
            /\ GateRecordUnchanged(u)]_vars

\* C1 witness: an event of the blocked user 1 has just been dropped
C1_Witness ==
    /\ last.verdict = "blocked"
    /\ last.ev.from_user = 1
    /\ 1 \notin whitelist
    /\ user_activities[1].blocked_until > now

\* every two consecutive recorded requests are at least gap apart, and the
\* instant t is at least gap after the last
Spaced(q, t, gap) ==
    /\ \A i \in 1..(Len(q) - 1) : q[i + 1] - q[i] >= gap
    /\ q # <<>> => t - q[Len(q)] >= gap

ThreeSeconds == 3 * OneSecond

\* u has never failed a check, is not blocked, and paces its events
CleanAndPaced(u, t) ==
    /\ u \notin whitelist /\ u \notin blacklist
    /\ user_activities[u].suspicious_score = 0
    /\ user_activities[u].blocked_until = NoTime
    /\ Spaced(user_activities[u].request_times, t, ThreeSeconds)

\* the event repeats no text the gate remembers and is no command
FreshText(u, ev) ==
    /\ ~IsCommand(ev)
    /\ \A i \in 1..Len(user_activities[u].identical_messages) :
         user_activities[u].identical_messages[i][2] # ev.text

\* C2 (as the specification states it): an event of a clean, paced,
\* non-whitelisted user that is an input of the survey (the dispatcher has
\* a handler for it) and repeats nothing is never dropped by the gate.
C2_NormalInputNeverDropped ==
    [][\A u \in Users :
         (/\ From(u)
          /\ CleanAndPaced(u, now')
          /\ FreshText(u, last'.ev)
          /\ Route(last'.ev, fsm_state[u]) # "unhandled")
         => last'.verdict = "forward"]_vars

\* the requests of u the burst check counts when one more arrives at t
InBurstWindow(u, t) == CountWithin(user_activities[u].request_times, t, burst_window) + 1

\* the step runs the gate's checks on an event of u
Checked(u) ==
    /\ From(u)
    /\ u \notin whitelist /\ u \notin blacklist
    /\ ~BlockedAt(u, now')
    /\ last'.verdict # "blocked"

-----------------------------------------------------------------------------
(* The bot as bot.py wires it: the middleware sits on the update observer  *)
(* (line 105), the white and black lists are empty.  A run starts at any   *)
(* point of one user's history: a survey answered step by step up to the   *)
(* stored resume, then an edit of the driving categories.                  *)

SampleAge == <<"1", "8">>

SampleSalary == <<"5", "0", "0", "0">>

\* one valid input per survey step, then the edit of the driving categories
History ==
    << Text(button_create_resume), Text(SampleName), Contact, Text(SampleAge),
       Tap("region_", "kyiv"), Text(SampleName),
       Tap("driver_categories_", "0"), Tap("driver_categories_", "1"),
       Tap("driver_categories_", "submit"), Text(<<"3">>), Text(<<"5">>),
       Tap("semi_trailer_", "0"), Tap("semi_trailer_", "submit"),
       Tap("type_of_work_", "0"), Tap("type_of_work_", "submit"),
       Text(SampleName), Tap("adr_", "yes"),
       Tap("race_duration_", "0"), Tap("race_duration_", "submit"),
       Text(SampleSalary),
       Tap("docs_abroad_", "0"), Tap("docs_abroad_", "submit"),
       Tap("military_", "yes"), Text(SampleName),
       Tap("edit_resume_menu", ""), Tap("edit_field_", "driving_categories"),
       Tap("driver_categories_", "0"), Tap("driver_categories_", "submit"),
       Text(<<"3">>), Tap("semi_trailer_", "0") >>

RECURSIVE Replay(_)
\* the bot after the first k events of History, all of user 1
Replay(k) ==
    IF k = 0 THEN Constructed(NoResumes)
    ELSE CHOOSE after \in {Dispatch(b, {}, {}, 1, Received(History[k], 1, "update"), 0,
                                     "ok", "asc", Handler) : b \in {Replay(k - 1)}} : TRUE

EditFields == {"name", "driving_categories", "adr", "description", "nothing"}

FlowEnv ==
    [users |-> {1},
     observer |-> "update",
     events |-> {Photo, Contact, Text(SampleName), Text(SampleAge), Text(SampleSalary),
                 Text(start_command), Text(button_create_resume), Text(button_my_resume),
                 Tap("delete_resume_confirm", ""), Tap("edit_resume_menu", ""),
                 Tap("region_", "kyiv"),
                 Tap("driver_categories_", "0"), Tap("driver_categories_", "1"),
                 Tap("driver_categories_", "submit"),
                 Tap("semi_trailer_", "0"), Tap("semi_trailer_", "submit"),
                 Tap("type_of_work_", "0"), Tap("type_of_work_", "submit"),
                 Tap("adr_", "yes"),
                 Tap("race_duration_", "0"), Tap("race_duration_", "submit"),
                 Tap("docs_abroad_", "0"), Tap("docs_abroad_", "submit"),
                 Tap("military_", "yes"), Tap("skip_description", ""),
                 Tap("unknown", "")}
                \cup {Tap("edit_field_", f) : f \in EditFields},
     delays |-> {1},
     outcomes |-> {"ok", "fail", "raise"},
     orders |-> {"asc", "desc"},
     horizon |-> FlowHorizon]

Init == \E k \in 0..Len(History) : StartsAs(Replay(k), {}, {})

Next ==
    \/ CommandStartHandler(FlowEnv)
    \/ HandleCreateResumeButton(FlowEnv)
    \/ HandleMyResumeButton(FlowEnv)
    \/ HandleDeleteResume(FlowEnv)
    \/ HandleEditResumeMenu(FlowEnv)
    \/ HandleEditField(FlowEnv)
    \/ ProcessNameWrapper(FlowEnv)
    \/ ProcessPhoneWrapper(FlowEnv)
    \/ ProcessAgeWrapper(FlowEnv)
    \/ ProcessPlaceOfRegionCallbackWrapper(FlowEnv)
    \/ ProcessPlaceOfCityWrapper(FlowEnv)
    \/ ToggleDrivingCategoriesWrapper(FlowEnv)
    \/ ProcessDrivingExpPerCategoryWrapper(FlowEnv)
    \/ ProcessDrivingSemiTrailerTypesWrapper(FlowEnv)
    \/ ToggleTypeOfWorkWrapper(FlowEnv)
    \/ ProcessTypesOfCarsWrapper(FlowEnv)
    \/ ProcessAdrLicenseWrapper(FlowEnv)
    \/ ToggleRaceDurationWrapper(FlowEnv)
    \/ ProcessDesiredSalaryWrapper(FlowEnv)
    \/ ToggleDocsForDrivingAbroadWrapper(FlowEnv)
    \/ ProcessMilitaryBookingWrapper(FlowEnv)
    \/ ProcessDescriptionWrapper(FlowEnv)
    \/ SkipDescriptionWrapper(FlowEnv)
    \/ Unhandled(FlowEnv)

Spec == Init /\ [][Next]_vars

-----------------------------------------------------------------------------
(* Claims about the survey and the edit flow.                              *)

\* the persistence calls of kind op made by the latest delivery
CallsOf(d, op) == {i \in 1..Len(d.calls) : d.calls[i].op = op}

\* the step a choice-tap belongs to, by the tag it carries
StepOfTag ==
    [tag \in {"region_", "driver_categories_", "semi_trailer_", "type_of_work_", "adr_",
              "race_duration_", "docs_abroad_", "military_", "skip_description"} |->
       CASE tag = "region_" -> "place_of_living_region"
         [] tag = "driver_categories_" -> "driving_categories"
         [] tag = "semi_trailer_" -> "driving_semi_trailer_types"
         [] tag = "type_of_work_" -> "type_of_work"
         [] tag = "adr_" -> "is_adr_license"
         [] tag = "race_duration_" -> "race_duration_preference"
         [] tag = "docs_abroad_" -> "docs_for_driving_abroad"
         [] tag = "military_" -> "military_booking"
         [] tag = "skip_description" -> "description"]

\* C3 (as the specification states it): a choice-tap that carries the tag
\* of a step other than current_state changes neither current_state nor
\* field_values.
C3_ForeignTapIgnored ==
    [][\A u \in Users :
         (/\ From(u)
          /\ last'.ev.kind = "callback"
          /\ last'.ev.data.tag \in DOMAIN StepOfTag
          /\ fsm_state[u] # StepOfTag[last'.ev.data.tag])
         => /\ fsm_state'[u] = fsm_state[u]
            /\ fsm_data'[u] = fsm_data[u]]_vars

\* C4 (as the specification states it): create-or-replace is called, and
\* the store written, only by an event that arrives while current_state is
\* the description step.
C4_FinalizeOnlyAtDescription ==
    [][\A u \in Users :
         (From(u) /\ fsm_state[u] # "description")
         => /\ CallsOf(last', "add_resume") = {}
            /\ last'.ev.data.tag = "skip_description" => resumes' = resumes]_vars

\* the Record fields an edit of field may write
UpdateSet(field) ==
    CASE field = "name" -> {"name"}
      [] field = "phone" -> {"phone"}
      [] field = "age" -> {"age"}
      [] field = "location" -> {"place_of_living"}
      [] field = "driving_categories" ->
           {"driving_categories", "driving_experience", "semi_trailer_types"}
      [] field = "type_of_work" -> {"types_of_work"}
      [] field = "types_of_cars" -> {"types_of_cars"}
      [] field = "adr" -> {"is_adr_license"}
      [] field = "race_duration" -> {"race_duration_preference"}
      [] field = "salary" -> {"desired_salary"}
      [] field = "docs_abroad" -> {"docs_for_driving_abroad"}
      [] field = "military" -> {"military_booking"}
      [] field = "description" -> {"description"}
      [] OTHER -> {}

\* u is editing: the Session holds the overlay handle_edit_field wrote
Editing(u) ==
    /\ Has(fsm_data[u], "editing_field")
    /\ Has(fsm_data[u], "editing_resume")
    /\ Has(fsm_data[u], "editing_user_id")

\* C5 (as the specification states it): while u is editing a field, no
\* event (the confirmed deletion of the resume aside) calls
\* create-or-replace, and every Record field outside the field's update
\* set keeps the value it had at edit entry.
C5_EditKeepsOtherFields ==
    [][\A u \in Users :
         (From(u) /\ Editing(u) /\ last'.handler # "handle_delete_resume")
         => /\ CallsOf(last', "add_resume") = {}
            /\ LET owner == fsm_data[u].editing_user_id
                   snapshot == fsm_data[u].editing_resume
               IN /\ Exists(resumes'[owner])
                  /\ \A k \in DOMAIN snapshot \ UpdateSet(fsm_data[u].editing_field) :
                       /\ k \in DOMAIN resumes'[owner]
                       /\ resumes'[owner][k] = snapshot[k]]_vars

\* C6: every update issued while u is editing is keyed by the user id
\* stored at edit entry, whoever the message handed to Save is from.
C6_UpdateKeyedByOwner ==
    [][\A u \in Users :
         (From(u) /\ Editing(u))
         => \A i \in CallsOf(last', "update_resume") :
              last'.calls[i].key = fsm_data[u].editing_user_id]_vars

\* C6 witness: an update has been issued from a tap, whose message is the
\* bot's, and it is keyed by the user who taps
C6_Witness ==
    /\ last.ev.kind = "callback"
    /\ last.ev.msg_from = BotId
    /\ \E i \in CallsOf(last, "update_resume") :
         last.calls[i].key = last.ev.from_user /\ last.calls[i].ok

\* the Record of the edit scenario: categories [B, C1E] with 3.0 and 5.0
\* years (experience is kept in tenths of a year)
ScenarioRecord(r) ==
    /\ Exists(r)
    /\ r.driving_categories = <<CAT_B, CAT_C1E>>
    /\ DOMAIN r.driving_experience = {CAT_B, CAT_C1E}
    /\ r.driving_experience[CAT_B] = 30
    /\ r.driving_experience[CAT_C1E] = 50

\* C7 (as the specification states it): with that Record stored, a user
\* who edits the driving categories and selects only B on the keyboard is
\* not asked for semi-trailer sub-types, and the update sets
\* driving_categories = [B] and driving_experience = {B: 3.0}.
C7_OnlyBKept ==
    [][\A u \in Users :
         (/\ From(u)
          /\ Editing(u)
          /\ fsm_data[u].editing_field = "driving_categories"
          /\ ScenarioRecord(fsm_data[u].editing_resume)
          /\ taps'[u] = <<"0">>)
         => /\ "ask_semi_trailer_types" \notin last'.sent
            /\ \A i \in CallsOf(last', "update_resume") :
                 /\ last'.calls[i].payload.driving_categories = <<CAT_B>>
                 /\ DOMAIN last'.calls[i].payload.driving_experience = {CAT_B}
                 /\ last'.calls[i].payload.driving_experience[CAT_B] = 30]_vars

SessionCleared(u) == fsm_state[u] = NoState /\ fsm_data[u] = EmptyDict

\* C8: when Save has called update-by-key, the user is told the outcome (the
\* failure message when it returned false) and the Session is left cleared.
C8_SaveReportsAndClears ==
    [][\A u \in Users :
         From(u)
         => \A i \in CallsOf(last', "update_resume") :
              /\ last'.calls[i].ok => "msg_resume_updated" \in last'.sent
              /\ ~last'.calls[i].ok => "error_resume_update_failed" \in last'.sent
              /\ fsm_state'[u] = NoState
              /\ fsm_data'[u] = EmptyDict]_vars

\* C8 witness: an update has returned false, the user has been told, and
\* the Session is cleared
C8_Witness ==
    /\ \E i \in CallsOf(last, "update_resume") : ~last.calls[i].ok
    /\ "error_resume_update_failed" \in last.sent
    /\ SessionCleared(last.ev.from_user)

\* C9: when finalize has run for a resolvable user id, the user has been
\* shown the summary and the completion message and the Session is
\* cleared, whatever create-or-replace did.
C9_FinalizeAlwaysCompletes ==
    [][\A u \in Users :
         From(u)
         => \A i \in CallsOf(last', "add_resume") :
              /\ {"resume_display", "msg_resume_saved"} \subseteq last'.sent
              /\ fsm_state'[u] = NoState
              /\ fsm_data'[u] = EmptyDict]_vars

\* C9 witness: create-or-replace has not succeeded, and the summary and
\* the completion message are shown and the Session is cleared
C9_Witness ==
    /\ \E i \in CallsOf(last, "add_resume") : ~last.calls[i].ok
    /\ {"resume_display", "msg_resume_saved"} \subseteq last.sent
    /\ SessionCleared(last.ev.from_user)

-----------------------------------------------------------------------------
(* The gate with its lists: user 2 is on the whitelist, on the blacklist   *)
(* or on both (the sets are constructor arguments); user 1 is on neither.  *)
(* A delivery comes at once or when the first block of a user has run out  *)
(* (_block_user doubles initial_block_duration for a score of 20 to 49).   *)

ExpiryDelay == initial_block_duration * 2

ListsEnv ==
    [users |-> Users,
     observer |-> "event",
     events |-> {Text(button_create_resume), Tap("edit_resume_menu", "")},
     delays |-> {0, ExpiryDelay},
     outcomes |-> {"ok"},
     orders |-> {"asc"},
     horizon |-> ExpiryDelay]

InitLists ==
    \E wl \in SUBSET {2}, bl \in SUBSET {2} :
      /\ wl \cup bl # {}
      /\ StartsAs(Constructed(NoResumes), wl, bl)

NextLists ==
    \/ HandleCreateResumeButton(ListsEnv)
    \/ HandleEditResumeMenu(ListsEnv)

SpecLists == InitLists /\ [][NextLists]_vars

\* C11: every event of a whitelisted user is forwarded, and the gate
\* leaves that user's entry of the activity table as it was (no request
\* recorded, no score, no block), at whatever rate the events arrive.
C11_WhitelistedForwarded ==
    [][\A u \in Users :
         (From(u) /\ u \in whitelist)
         => /\ last'.verdict = "forward"
            /\ user_activities'[u] = user_activities[u]]_vars

\* C11 witness: an event of the whitelisted user 2 has been forwarded and
\* nothing is recorded for them, while the same events have got user 1
\* blocked
C11_Witness ==
    /\ last.ev.from_user = 2 /\ 2 \in whitelist
    /\ last.verdict = "forward"
    /\ ~user_activities[2].present
    /\ user_activities[1].present /\ user_activities[1].blocked_until > now

\* C12 (as the specification states it): an event of a blacklisted user is
\* never forwarded, whether or not the user is on the whitelist as well.
C12_BlacklistedNeverForwarded ==
    [][\A u \in Users :
         (From(u) /\ u \in blacklist) => last'.verdict # "forward"]_vars

\* the checks of __call__, in the order of the checks list
CheckOrder == <<"rate_limit", "burst", "command_spam", "callback_spam", "spam", "survey">>

CheckRank(name) == CHOOSE i \in 1..Len(CheckOrder) : CheckOrder[i] = name

\* the latest delivery was dropped because a check failed
FailedACheck(d) == \E i \in 1..Len(CheckOrder) : d.verdict = CheckOrder[i]

\* the tracking fields of the checks that come after check number k are as
\* they were before the step
LaterTrackingUnchanged(u, k) ==
    /\ k < CheckRank("command_spam")
       => user_activities'[u].last_command_time = user_activities[u].last_command_time
    /\ k < CheckRank("callback_spam")
       => user_activities'[u].callback_times = user_activities[u].callback_times
    /\ k < CheckRank("spam")
       => user_activities'[u].identical_messages = user_activities[u].identical_messages
    /\ k < CheckRank("survey")
       => /\ user_activities'[u].state_changes = user_activities[u].state_changes
          /\ user_activities'[u].survey_start_time = user_activities[u].survey_start_time

\* C13 (as the specification states it): when a check fails for an event,
\* no later check of the sequence is evaluated: the failed check is the
\* only one that has failed, and the later checks' tracking is untouched.
C13_FirstFailureShortCircuits ==
    [][\A u \in Users :
         (From(u) /\ FailedACheck(last'))
         => /\ last'.failed = {last'.verdict}
            /\ LaterTrackingUnchanged(u, CheckRank(last'.verdict))]_vars

\* u is under a temporary block once the step is over
BlockedAfter(u) ==
    /\ user_activities'[u].blocked_until # NoTime
    /\ now' < user_activities'[u].blocked_until

\* C14: after an event that fails a security check the user is blocked
\* exactly when the resulting suspicion score is at least the threshold.
C14_BlockedIffThreshold ==
    [][\A u \in Users :
         (From(u) /\ FailedACheck(last'))
         => (BlockedAfter(u) <=> user_activities'[u].suspicious_score >= BlockThreshold)]_vars

\* C14 witness: a failed check has left user 1 blocked, with a score of
\* the threshold or more
C14_Witness ==
    /\ FailedACheck(last) /\ last.ev.from_user = 1
    /\ user_activities[1].blocked_until > now
    /\ user_activities[1].suspicious_score >= BlockThreshold

\* C14 witness of the other side: a failed check has left user 1 below
\* the threshold and not blocked
C14_WitnessUnblocked ==
    /\ FailedACheck(last) /\ last.ev.from_user = 1
    /\ user_activities[1].blocked_until = NoTime
    /\ user_activities[1].suspicious_score < BlockThreshold

\* the block of u has run out at instant t
ExpiredAt(u, t) ==
    /\ user_activities[u].present
    /\ user_activities[u].blocked_until # NoTime
    /\ t >= user_activities[u].blocked_until

\* C15: the first event at or after blocked_until lifts the block and goes
\* through the checks (it is recorded as a request and is not dropped as
\* blocked); the score it is checked with is max(0, score - 10), so the
\* user is left with exactly that when the event is forwarded, and with
\* more when a check fails.
C15_ExpiryDecrementsScore ==
    [][\A u \in Users :
         (From(u) /\ u \notin whitelist /\ u \notin blacklist /\ ExpiredAt(u, now'))
         => /\ last'.verdict # "blocked"
            /\ user_activities'[u].request_times # <<>>
            /\ user_activities'[u].request_times[Len(user_activities'[u].request_times)] = now'
            /\ last'.verdict = "forward"
               => /\ user_activities'[u].blocked_until = NoTime
                  /\ user_activities'[u].suspicious_score
                       = Max(0, user_activities[u].suspicious_score - ExpiryDecrement)
            /\ FailedACheck(last')
               => user_activities'[u].suspicious_score
                    > Max(0, user_activities[u].suspicious_score - ExpiryDecrement)]_vars

\* C15 witness: the block of user 1 has run out, the event that came then
\* was forwarded, and a part of the score is still there
C15_Witness ==
    /\ now = ExpiryDelay
    /\ last.ev.from_user = 1 /\ last.verdict = "forward"
    /\ user_activities[1].blocked_until = NoTime
    /\ user_activities[1].suspicious_score > 0

-----------------------------------------------------------------------------
(* The multi-select steps.  A run starts where a keyboard of choices has   *)
(* just been shown: at one of the five multi-select steps of the survey,   *)
(* or in edit mode, after the stored resume of History has been opened for *)
(* one of the multi-select fields.                                         *)

\* deliveries observed after the starting point
SelectHorizon == 3

RECURSIVE ReplayOf(_, _)
\* the bot after the first k events of the history h, all of user 1
ReplayOf(h, k) ==
    IF k = 0 THEN Constructed(NoResumes)
    ELSE CHOOSE after \in {Dispatch(b, {}, {}, 1, Received(h[k], 1, "update"), 0,
                                     "ok", "asc", Handler) : b \in {ReplayOf(h, k - 1)}} : TRUE

\* History up to the stored resume and the edit menu
StoredLen == Len(History) - 5

\* the bot after the stored resume has been opened to edit field
EditEntry(field) ==
    ReplayOf(SubSeq(History, 1, StoredLen) \o <<Tap("edit_field_", field)>>, StoredLen + 1)

\* the points of History where a multi-select keyboard is shown
SelectPoints == {6, 11, 13, 17, 20, 29}

SelectEdits == {"driving_categories", "type_of_work", "race_duration", "docs_abroad"}

SelectTags == {"driver_categories_", "semi_trailer_", "type_of_work_", "race_duration_",
               "docs_abroad_"}

SelectEnv ==
    [users |-> {1},
     observer |-> "update",
     events |-> {Tap(tag, item) : tag \in SelectTags, item \in {"0", "1", "submit"}}
                \cup {Tap("docs_abroad_", "2"), Tap("docs_abroad_", "9")},
     delays |-> {1},
     outcomes |-> {"ok", "fail"},
     orders |-> {"asc", "desc"},
     horizon |-> SelectHorizon]

InitSelect ==
    \/ \E k \in SelectPoints : StartsAs(ReplayOf(History, k), {}, {})
    \/ \E field \in SelectEdits : StartsAs(EditEntry(field), {}, {})

NextSelect ==
    \/ ToggleDrivingCategoriesWrapper(SelectEnv)
    \/ ProcessDrivingSemiTrailerTypesWrapper(SelectEnv)
    \/ ToggleTypeOfWorkWrapper(SelectEnv)
    \/ ToggleRaceDurationWrapper(SelectEnv)
    \/ ToggleDocsForDrivingAbroadWrapper(SelectEnv)

SpecSelect == InitSelect /\ [][NextSelect]_vars

\* the Session field a keyboard keeps its selection in, by the tag of its
\* buttons
SelectionField ==
    [tag \in SelectTags |->
       CASE tag = "driver_categories_" -> "selected_driver_categories"
         [] tag = "semi_trailer_" -> "semi_trailer_selection"
         [] tag = "type_of_work_" -> "selected_types_of_work"
         [] tag = "race_duration_" -> "selected_race_durations"
         [] tag = "docs_abroad_" -> "selected_docs_abroad"]

\* the options of the keyboards that toggle_selection serves
GenericOptions ==
    [tag \in SelectTags \ {"docs_abroad_"} |->
       CASE tag = "driver_categories_" -> DRIVING_CATEGORIES
         [] tag = "semi_trailer_" -> SEMI_TRAILERS_TYPES
         [] tag = "type_of_work_" -> TYPES_OF_WORK
         [] tag = "race_duration_" -> RACE_DURATION_OPTIONS]

\* the selection a Session holds under a tag, as a set
Selection(data, tag) == Range(Get(data, SelectionField[tag], <<>>))

\* the step is a tap of user u, forwarded to its handler
TapFrom(u) == From(u) /\ last'.verdict = "forward" /\ last'.ev.kind = "callback"

\* the Session of u as the step leaves it
SessionAfter(u) ==
    [state |-> fsm_state'[u], data |-> fsm_data'[u], db |-> resumes', sent |-> {},
     calls |-> <<>>]

\* C16: on a keyboard served by toggle_selection, a tap of a valid option
\* index followed by a second tap of the same index leaves the stored
\* selection, as a set, what it was before the first tap.
C16_ToggleTwiceRestores ==
    [][\A u \in Users :
         (/\ TapFrom(u)
          /\ last'.ev.data.tag \in DOMAIN GenericOptions
          /\ IsIndex(last'.ev.data.item)
          /\ IndexOf(last'.ev.data.item) < Len(GenericOptions[last'.ev.data.tag]))
         => \A order \in {"asc", "desc"} :
              Selection(Handler(last'.handler, SessionAfter(u), last'.ev, "ok", order).data,
                        last'.ev.data.tag)
                = Selection(fsm_data[u], last'.ev.data.tag)]_vars

\* C16 witness: user 1 has tapped the first category twice on the survey's
\* keyboard and the selection is empty again
C16_Witness ==
    /\ taps[1] = <<"0", "0">>
    /\ last.ev.data = [tag |-> "driver_categories_", item |-> "0"]
    /\ fsm_state[1] = "driving_categories"
    /\ ~Has(fsm_data[1], "editing_field")
    /\ Selection(fsm_data[1], "driver_categories_") = {}

NoSelectionErrors == {"error_no_selection", "error_no_semi_trailer"}

\* C17: the submit of an empty selection is answered with the no-selection
\* error and changes neither current_state nor field_values, on every
\* multi-select keyboard, in the survey and in edit mode.
C17_EmptySubmitFails ==
    [][\A u \in Users :
         (/\ TapFrom(u)
          /\ last'.ev.data.tag \in SelectTags
          /\ last'.ev.data.item = "submit"
          /\ Selection(fsm_data[u], last'.ev.data.tag) = {})
         => /\ last'.sent \cap NoSelectionErrors # {}
            /\ last'.sent \subseteq NoSelectionErrors
            /\ last'.calls = <<>>
            /\ fsm_state'[u] = fsm_state[u]
            /\ fsm_data'[u] = fsm_data[u]]_vars

\* C17 witness: in edit mode, the submit of an empty selection has been
\* refused and the edit is still open
C17_Witness ==
    /\ last.ev.data.item = "submit" /\ last.ev.data.tag \in SelectTags
    /\ last.sent = {"error_no_selection"}
    /\ Has(fsm_data[1], "editing_field")
    /\ Selection(fsm_data[1], last.ev.data.tag) = {}

\* the documents selection holds the sentinel alone or not at all
DocsSelectionSound(data) ==
    no_docs_option \in Selection(data, "docs_abroad_")
    => Selection(data, "docs_abroad_") = {no_docs_option}

\* C18: the documents selection never holds the none sentinel together
\* with a document; a tap of the sentinel leaves exactly {none}, a tap of
\* a document leaves no sentinel.
C18_SentinelExclusive ==
    /\ [](\A u \in Users : DocsSelectionSound(fsm_data[u]))
    /\ [][\A u \in Users :
            (/\ TapFrom(u)
             /\ last'.ev.data.tag = "docs_abroad_"
             /\ IsIndex(last'.ev.data.item)
             /\ IndexOf(last'.ev.data.item) < Len(DOCS_FOR_DRIVING_ABROAD))
            => IF DOCS_FOR_DRIVING_ABROAD[IndexOf(last'.ev.data.item) + 1] = no_docs_option
               THEN Selection(fsm_data'[u], "docs_abroad_") = {no_docs_option}
               ELSE no_docs_option \notin Selection(fsm_data'[u], "docs_abroad_")]_vars

\* C18 witness: in edit mode, a tap of the sentinel has left it alone in
\* the selection
C18_Witness ==
    /\ last.ev.data = [tag |-> "docs_abroad_", item |-> "2"]
    /\ last.verdict = "forward"
    /\ Get(fsm_data[1], "editing_field", "") = "docs_abroad"
    /\ Selection(fsm_data[1], "docs_abroad_") = {no_docs_option}

-----------------------------------------------------------------------------
(* The typed steps.  A run starts where a typed answer is awaited: at one  *)
(* of the typed steps of the survey, or in edit mode, after the stored     *)
(* resume of History has been opened for a typed field (the place of       *)
(* living asks the region first) or its categories have been submitted.    *)
(* The category buttons of the earlier keyboard can still be tapped: a     *)
(* callback handler is chosen by its data, whatever the step.              *)

\* deliveries observed after the starting point
InputHorizon == 2

\* the points of History where a typed answer is awaited
InputPoints == {1, 2, 3, 5, 9, 15, 19, 23, 28}

InputEdits == {"name", "phone", "age", "location", "types_of_cars", "salary", "description"}

InputEnv ==
    [users |-> {1},
     observer |-> "update",
     events |-> {Photo, Contact, Text(SampleName), Text(SampleAge), Text(SampleSalary),
                 Text(<<"+", "5">>), Text(<<" ">>), Text(<<"a">>), Text(<<"7">>),
                 Text(<<"2", "0", "0">>), Text(<<"1", " ", "8">>), Text(<<"<cyr>", "<cyr>">>),
                 Tap("region_", "kyiv"), Tap("driver_categories_", "0")},
     delays |-> {1},
     outcomes |-> {"ok", "fail"},
     orders |-> {"asc"},
     horizon |-> InputHorizon]

InitInput ==
    \/ \E k \in InputPoints : StartsAs(ReplayOf(History, k), {}, {})
    \/ \E field \in InputEdits : StartsAs(EditEntry(field), {}, {})

NextInput ==
    \/ ProcessNameWrapper(InputEnv)
    \/ ProcessPhoneWrapper(InputEnv)
    \/ ProcessAgeWrapper(InputEnv)
    \/ ProcessPlaceOfRegionCallbackWrapper(InputEnv)
    \/ ProcessPlaceOfCityWrapper(InputEnv)
    \/ ToggleDrivingCategoriesWrapper(InputEnv)
    \/ ProcessDrivingExpPerCategoryWrapper(InputEnv)
    \/ ProcessTypesOfCarsWrapper(InputEnv)
    \/ ProcessDesiredSalaryWrapper(InputEnv)
    \/ ProcessDescriptionWrapper(InputEnv)

SpecInput == InitInput /\ [][NextInput]_vars

\* the answers of the validators
ValidationErrors ==
    {"error_name_empty", "error_name_too_short", "error_name_too_long",
     "error_name_invalid_format", "error_name_single_word", "error_invalid_phone",
     "error_age_empty", "error_age_has_spaces", "error_invalid_age",
     "error_city_empty", "error_city_too_short", "error_city_too_long",
     "error_city_only_digits", "error_not_numeric", "error_invalid_years",
     "error_types_of_cars_empty", "error_types_of_cars_too_short",
     "error_types_of_cars_too_long", "error_types_of_cars_cyrillic",
     "error_types_of_cars_invalid_chars", "error_types_of_cars_no_letters",
     "error_types_of_cars_invalid_format", "error_salary_empty",
     "error_salary_invalid_format", "error_salary_too_low", "error_salary_too_high",
     "error_description_too_long"}

\* C19: when the input of a step fails validation, current_state and every
\* entry of field_values are as before the input, nothing is written to
\* the store, and the step is still the one that takes the next input; in
\* the survey and in edit mode.
C19_FailedInputStoresNothing ==
    [][\A u \in Users :
         (From(u) /\ last'.verdict = "forward" /\ last'.sent \cap ValidationErrors # {})
         => /\ fsm_state'[u] = fsm_state[u]
            /\ fsm_data'[u] = fsm_data[u]
            /\ last'.calls = <<>> /\ resumes' = resumes
            /\ Route(last'.ev, fsm_state'[u]) = last'.handler]_vars

-----------------------------------------------------------------------------
(* The Records written.                                                    *)

\* the persistence calls of the latest delivery that wrote a Record
Written(d) == {i \in CallsOf(d, "add_resume") \cup CallsOf(d, "update_resume") : d.calls[i].ok}

\* each driving category of Record r has an experience entry
ExperienceComplete(r) ==
    Range(Get(r, "driving_categories", <<>>)) \subseteq DOMAIN Get(r, "driving_experience", EmptyDict)

\* C20: every Record written to the store, by finalize or by an edit, has
\* an experience entry for each category of its driving_categories.
C20_WrittenRecordHasExperience ==
    [][\A i \in Written(last') : ExperienceComplete(resumes'[last'.calls[i].key])]_vars

-----------------------------------------------------------------------------
(* The collection on its own: add, update and delete called with any       *)
(* payload, as a caller other than the handlers could.                     *)

\* the names a stored resume can carry
StoreNames == {<<"a">>, <<"b">>}

\* the resumes handed to add_resume
StoreResumes ==
    {[user_id |-> u, username |-> n, name |-> name] :
       u \in Users, n \in {"alice", ""}, name \in StoreNames}

\* the payloads handed to update_resume: any of a foreign user_id, a
\* foreign username and a new name
StorePayloads ==
    {Piece(a, ("user_id" :> 2)) @@ Piece(b, ("username" :> "mallory"))
       @@ Piece(c, ("name" :> <<"b">>)) : a \in BOOLEAN, b \in BOOLEAN, c \in BOOLEAN}

StoreKeys == {0} \cup Users

StoreOutcomes == {"ok", "fail"}

\* the collection after one call, recorded as the latest delivery
Stored(r, op, key, payload) ==
    /\ resumes' = r.db
    /\ last' = [NoDelivery EXCEPT
                  !.handler = op,
                  !.calls = <<[op |-> op, key |-> key, payload |-> payload,
                               ok |-> r.result]>>]
    /\ UNCHANGED <<now, user_activities, last_cleanup, whitelist, blacklist,
                   fsm_state, fsm_data, taps>>

AddResume ==
    \E resume \in StoreResumes, outcome \in StoreOutcomes :
      Stored(add_resume_sync(resumes, resume, outcome), "add_resume", resume.user_id, resume)

UpdateResume ==
    \E user_id \in StoreKeys, updates \in StorePayloads, outcome \in StoreOutcomes :
      Stored(update_resume_sync(resumes, user_id, updates, outcome),
             "update_resume", user_id, updates)

DeleteResume ==
    \E user_id \in StoreKeys, outcome \in StoreOutcomes :
      Stored(delete_resume_sync(resumes, user_id, outcome),
             "delete_resume", user_id, EmptyDict)

InitStore == StartsAs(Constructed(NoResumes), {}, {})

NextStore == AddResume \/ UpdateResume \/ DeleteResume

SpecStore == InitStore /\ [][NextStore]_vars

\* C21: after update(user_id, partial_fields) with any payload, also one
\* that carries user_id or username, the stored Record's user_id and
\* username are what they were before the update.
C21_UpdateKeepsIdentity ==
    [][\A i \in CallsOf(last', "update_resume") :
         LET key == last'.calls[i].key IN
         IF last'.calls[i].ok
         THEN /\ Exists(resumes[key]) /\ Exists(resumes'[key])
              /\ resumes'[key].user_id = resumes[key].user_id
              /\ resumes'[key].username = resumes[key].username
         ELSE resumes' = resumes]_vars

\* C21 witness: an update carrying a foreign user_id and username has been
\* merged (its name is stored) and the Record is still user 1's
C21_Witness ==
    /\ \E i \in CallsOf(last, "update_resume") :
         /\ last.calls[i].ok /\ last.calls[i].key = 1
         /\ last.calls[i].payload = ("user_id" :> 2) @@ ("username" :> "mallory")
                                      @@ ("name" :> <<"b">>)
    /\ resumes[1] = [user_id |-> 1, username |-> "alice", name |-> <<"b">>]

-----------------------------------------------------------------------------
(* The gate under a steady load: one user taps a button every RateDelay    *)
(* half-seconds, from the construction of the gate on, for a little more   *)
(* than max_requests_per_hour requests.  No other check objects to this    *)
(* pace.                                                                   *)

\* half-seconds between two requests of the steady load
RateDelay == 6

RateHorizon == RateDelay * (max_requests_per_hour + 2)

RateEnv ==
    [users |-> {1},
     observer |-> "event",
     events |-> {Tap("edit_resume_menu", ""), Tap("unknown", "")},
     delays |-> {RateDelay},
     outcomes |-> {"ok"},
     orders |-> {"asc"},
     horizon |-> RateHorizon]

InitRate == StartsAs(Constructed(NoResumes), {}, {})

NextRate ==
    \/ HandleEditResumeMenu(RateEnv)
    \/ Unhandled(RateEnv)

SpecRate == InitRate /\ [][NextRate]_vars

\* the requests user 1 has made so far under the steady load, this one
\* included: one every RateDelay since time 0
RequestsMade(t) == t \div RateDelay

\* C22: a request that makes the requests of the trailing hour exceed
\* max_requests_per_hour is dropped by the rate-limit check, though the
\* user never exceeds max_requests_per_minute.
C22_HourlyCeilingEnforced ==
    [][\A u \in Users :
         (/\ From(u)
          /\ now' < Hour
          /\ Minute \div RateDelay <= max_requests_per_minute
          /\ RequestsMade(now') > max_requests_per_hour)
         => last'.verdict = "rate_limit"]_vars

-----------------------------------------------------------------------------
(* The rules of the gate one by one.                                       *)

\* u's previous request, if any, is at least min_message_interval before t
IntervalKept(u, t) ==
    LET q == user_activities[u].request_times
    IN q # <<>> => t - q[Len(q)] >= min_message_interval

\* C23: the minimum-interval rule lets pass a user's first text message
\* and every text message that comes at least min_message_interval after
\* the user's previous request (a text the gate has not seen: the
\* identical-text rule has nothing to object).
C23_IntervalRulePassesPacedText ==
    [][\A u \in Users :
         (/\ Checked(u)
          /\ last'.ev.has_text /\ last'.ev.text # <<>>
          /\ FreshText(u, last'.ev)
          /\ IntervalKept(u, now'))
         => "spam" \notin last'.failed]_vars

-----------------------------------------------------------------------------
(* The gate under one repeated tap: user 1 taps the same button again and  *)
(* again, so request_times is the history of that tap.                     *)

\* half-seconds of tapping observed
TapsHorizon == 6

TapsEnv ==
    [users |-> {1},
     observer |-> "event",
     events |-> {Tap("edit_resume_menu", "")},
     delays |-> {0, 1, 2, 3},
     outcomes |-> {"ok"},
     orders |-> {"asc"},
     horizon |-> TapsHorizon]

InitTaps == StartsAs(Constructed(NoResumes), {}, {})

NextTaps == HandleEditResumeMenu(TapsEnv)

SpecTaps == InitTaps /\ [][NextTaps]_vars

\* no second [s, s + 1s) holds more than max_callbacks_per_second of the
\* requests q
UnderTapCeiling(q) ==
    \A i \in 1..Len(q) :
      Cardinality({j \in 1..Len(q) : q[i] <= q[j] /\ q[j] < q[i] + OneSecond})
        <= max_callbacks_per_second

\* C24: a tap that is the max_identical_callbacks-th (or a later) tap of
\* the same payload inside identical_callback_window, by a user who has
\* never failed a check and keeps to the taps-per-second ceiling, is
\* dropped (by the callback-spam check, the claim says; the formula asks
\* only that it is not forwarded).
C24_IdenticalTapsDropped ==
    [][\A u \in Users :
         (/\ Checked(u)
          /\ user_activities[u].suspicious_score = 0
          /\ UnderTapCeiling(user_activities'[u].request_times)
          /\ CountWithin(user_activities'[u].request_times, now', identical_callback_window)
               >= max_identical_callbacks)
         => last'.verdict # "forward"]_vars

\* C25: the block set when a user's score first reaches the threshold
\* lasts initial_block_duration (the tiers above it: twice that, and
\* max_block_duration from a score of 50).
C25_FirstBlockIsShort ==
    [][\A u \in Users :
         (/\ From(u) /\ FailedACheck(last')
          /\ user_activities[u].suspicious_score < BlockThreshold
          /\ user_activities[u].blocked_until = NoTime
          /\ BlockedAfter(u))
         => user_activities'[u].blocked_until = now' + initial_block_duration]_vars

-----------------------------------------------------------------------------
(* The gate over days: two users, events at once or more than a day        *)
(* apart, so that a cleanup run finds entries idle past the cutoff.        *)

IdleDelay == Day + OneSecond

IdleEnv ==
    [users |-> Users,
     observer |-> "event",
     events |-> {Tap("edit_resume_menu", "")},
     delays |-> {0, IdleDelay},
     outcomes |-> {"ok"},
     orders |-> {"asc"},
     horizon |-> IdleDelay]

InitIdle == StartsAs(Constructed(NoResumes), {}, {})

NextIdle == HandleEditResumeMenu(IdleEnv)

SpecIdle == InitIdle /\ [][NextIdle]_vars

\* u has an entry, is not blocked, and its last event is more than a day
\* before t
IdlePastCutoff(u, t) ==
    /\ user_activities[u].present
    /\ user_activities[u].blocked_until = NoTime
    /\ user_activities[u].last_activity < t - Day

\* C26: a cleanup run, triggered by an event of another user, removes
\* from the activity table the entry of every user who is not blocked and
\* has sent nothing for more than 24 hours.
C26_IdleEntryRemoved ==
    [][\A u \in Users :
         (/\ last'.verdict # "none" /\ last'.ev.from_user # u
          /\ last_cleanup' = now' /\ last_cleanup # now'
          /\ IdlePastCutoff(u, now'))
         => ~user_activities'[u].present]_vars

-----------------------------------------------------------------------------
(* The order of the survey.                                                *)

\* the text of the latest event is accepted as years of experience
YearsAccepted(ev) == ev.has_text /\ years_error(Strip(ev.text)) = "ok"

\* u is at the experience question of the last selected category, in the
\* survey (not editing the categories of a stored resume)
AtLastExperience(u) ==
    /\ fsm_state[u] = "driving_exp_per_category"
    /\ Get(fsm_data[u], "editing_field", "") # "driving_categories"
    /\ Get(fsm_data[u], "selected_driver_categories", <<>>) # <<>>
    /\ Get(fsm_data[u], "current_category_index", 0) + 1
         = Len(Get(fsm_data[u], "selected_driver_categories", <<>>))

\* a category selected by u is one of those that need semi-trailer types
NeedsDetail(u) ==
    Range(Get(fsm_data[u], "selected_driver_categories", <<>>))
      \cap Range(DRIVING_CATEGORIES_ADDITIONAL_INFO) # {}

\* C27: when the experience of the last selected category is accepted, the
\* next state is the semi-trailer step if a selected category needs detail,
\* and the type-of-work step otherwise; the selection it is decided on is
\* the one already stored.
C27_BranchAfterExperience ==
    [][\A u \in Users :
         (From(u) /\ last'.verdict = "forward" /\ last'.ev.kind = "message"
          /\ AtLastExperience(u) /\ YearsAccepted(last'.ev))
         => /\ fsm_state'[u] = IF NeedsDetail(u) THEN "driving_semi_trailer_types"
                                ELSE "type_of_work"
            /\ Get(fsm_data'[u], "selected_driver_categories", <<>>)
                 = Get(fsm_data[u], "selected_driver_categories", <<>>)]_vars

\* C27 witness: with C1E selected the semi-trailer question has been asked
C27_Witness ==
    /\ last.handler = "process_driving_exp_per_category_wrapper"
    /\ fsm_state[1] = "driving_semi_trailer_types"
    /\ ~Has(fsm_data[1], "editing_field")
    /\ CAT_C1E \in Range(fsm_data[1].selected_driver_categories)
    /\ "ask_semi_trailer_types" \in last.sent

\* C27 witness of the other branch: with B alone the type of work is asked
C27_WitnessPlain ==
    /\ last.handler = "process_driving_exp_per_category_wrapper"
    /\ fsm_state[1] = "type_of_work"
    /\ ~Has(fsm_data[1], "editing_field")
    /\ fsm_data[1].selected_driver_categories = <<CAT_B>>
    /\ "ask_type_of_work" \in last.sent

\* the categories u tapped on the category keyboard, in the order tapped
TappedCategories(u) ==
    [i \in 1..Len(taps[u]) |-> DRIVING_CATEGORIES[IndexOf(taps[u][i]) + 1]]

\* u tapped categories of the keyboard, each one once, and they are the
\* stored selection
TappedOnce(u) ==
    /\ taps[u] # <<>>
    /\ Range(Get(fsm_data[u], "selected_driver_categories", <<>>))
         = {DRIVING_CATEGORIES[IndexOf(taps[u][i]) + 1] : i \in 1..Len(taps[u])}
    /\ \A i \in 1..Len(taps[u]) :
         IsIndex(taps[u][i]) /\ IndexOf(taps[u][i]) < Len(DRIVING_CATEGORIES)
    /\ \A i, j \in 1..Len(taps[u]) : taps[u][i] = taps[u][j] => i = j

\* C28: the experience questions go through the selected categories in the
\* order in which the user selected them: the list the submit stores, which
\* the questions follow index by index, is the list of the categories in
\* the order tapped.
C28_PromptsInSelectionOrder ==
    [][\A u \in Users :
         (/\ TapFrom(u)
          /\ last'.ev.data = [tag |-> "driver_categories_", item |-> "submit"]
          /\ ~Has(fsm_data[u], "editing_field")
          /\ fsm_state'[u] = "driving_exp_per_category"
          /\ TappedOnce(u))
         => Get(fsm_data'[u], "selected_driver_categories", <<>>) = TappedCategories(u)]_vars

-----------------------------------------------------------------------------
(* Edit mode.                                                              *)

\* the keyboard of each multi-select field that can be edited
EditTag ==
    [field \in SelectEdits |->
       CASE field = "driving_categories" -> "driver_categories_"
         [] field = "type_of_work" -> "type_of_work_"
         [] field = "race_duration" -> "race_duration_"
         [] field = "docs_abroad" -> "docs_abroad_"]

\* C29: when edit mode is entered for a multi-select field, whose keyboard
\* is drawn with nothing ticked, the working selection of that keyboard is
\* empty (so that the first tap on an option adds it).
C29_EditSelectionStartsEmpty ==
    [][\A u \in Users :
         (/\ TapFrom(u)
          /\ last'.handler = "handle_edit_field"
          /\ last'.ev.data.item \in SelectEdits
          /\ Get(fsm_data'[u], "editing_field", "") = last'.ev.data.item)
         => Selection(fsm_data'[u], EditTag[last'.ev.data.item]) = {}]_vars

\* the keys of the payload of persistence call number i of delivery d
PayloadKeys(d, i) == DOMAIN d.calls[i].payload

\* C30: the payload Save passes to update-by-key holds only keys of the
\* edited field's set: exactly the one key of a single-valued field
\* (place_of_living for the location), driving_categories with at most
\* driving_experience and semi_trailer_types for the categories, and never
\* user_id or username.
C30_UpdatePayloadRestricted ==
    [][\A u \in Users :
         (From(u) /\ Editing(u))
         => \A i \in CallsOf(last', "update_resume") :
              /\ PayloadKeys(last', i) \subseteq UpdateSet(fsm_data[u].editing_field)
              /\ PayloadKeys(last', i) \cap {"user_id", "username"} = {}
              /\ IF fsm_data[u].editing_field = "driving_categories"
                 THEN "driving_categories" \in PayloadKeys(last', i)
                 ELSE PayloadKeys(last', i) = UpdateSet(fsm_data[u].editing_field)]_vars

\* C30 witness: the location has been edited and the update carried
\* place_of_living alone
C30_Witness ==
    /\ last.handler = "process_place_of_city_wrapper"
    /\ \E i \in CallsOf(last, "update_resume") :
         last.calls[i].ok /\ PayloadKeys(last, i) = {"place_of_living"}

\* C30 witness for the categories: the update carried the three keys
C30_WitnessCategories ==
    /\ last.handler = "process_driving_exp_per_category_wrapper"
    /\ \E i \in CallsOf(last, "update_resume") :
         PayloadKeys(last, i) = {"driving_categories", "driving_experience", "semi_trailer_types"}

-----------------------------------------------------------------------------
(* The description.  A run starts where the description is awaited: at the *)
(* last step of the survey, or in edit mode, after the stored resume of    *)
(* History has been opened for its description.  The texts carry the       *)
(* pictographs of remove_emojis.                                           *)

\* deliveries observed after the starting point
DescriptionHorizon == 4

\* the point of History where the description is asked: the resume is
\* stored by the answer to it, before the edit menu
DescriptionPoint == StoredLen - 2

DescriptionEnv ==
    [users |-> {1},
     observer |-> "update",
     events |-> {Photo, Text(<<"a">>), Text(<<"a", " ", "<U+1F600>">>),
                 Text(<<"<U+274C>", "b">>), Tap("skip_description", ""),
                 Tap("edit_resume_menu", ""), Tap("edit_field_", "description")},
     delays |-> {1},
     outcomes |-> {"ok", "fail"},
     orders |-> {"asc"},
     horizon |-> DescriptionHorizon]

InitDescription ==
    \/ StartsAs(ReplayOf(History, DescriptionPoint), {}, {})
    \/ StartsAs(EditEntry("description"), {}, {})

NextDescription ==
    \/ ProcessDescriptionWrapper(DescriptionEnv)
    \/ SkipDescriptionWrapper(DescriptionEnv)
    \/ HandleEditResumeMenu(DescriptionEnv)
    \/ HandleEditField(DescriptionEnv)
    \/ Unhandled(DescriptionEnv)

SpecDescription == InitDescription /\ [][NextDescription]_vars

\* the description of Record r carries a pictograph
HasEmoji(r) == AnyChar(Get(r, "description", <<>>), IsEmoji)

\* C31: the description of a stored Record never contains a pictograph,
\* whether the Record was written by finalize or by an edit of the
\* description.
C31_StoredDescriptionHasNoEmoji ==
    \A u \in Users : Exists(resumes[u]) => ~HasEmoji(resumes[u])

-----------------------------------------------------------------------------
(* The gate as registered.                                                 *)

\* the gate has counted the event of u delivered by the step
Counted(u) ==
    /\ user_activities'[u].present
    /\ user_activities'[u].request_times # <<>>
    /\ user_activities'[u].last_activity = now'

\* the checks of __call__ pass on the event of u delivered by the step
PassesChecks(u) ==
    RunChecks(_update_activity(Touch(user_activities, u, now')[u], now'), now', last'.ev,
              fsm_state[u]).failed = "none"

\* C32: with the gate registered on the update observer, every text
\* message and every tap of a user who is on neither list goes through the
\* gate's checks before a handler runs: a forwarded event has been counted
\* by the gate and fails none of its checks.
C32_RegisteredGateChecksEveryEvent ==
    [][\A u \in Users :
         (/\ From(u) /\ u \notin whitelist /\ u \notin blacklist
          /\ last'.ev.kind = "callback" \/ last'.ev.has_text
          /\ last'.verdict = "forward")
         => Counted(u) /\ PassesChecks(u)]_vars

-----------------------------------------------------------------------------
(* A survey left open.  User 1 is on neither list.  A tap on a region      *)
(* button puts the Session in the city step (a callback handler is chosen  *)
(* by its data); deliveries come at once or when max_survey_duration has   *)
(* just been exceeded, which is after the end of any block set before.     *)

\* from the first event in a step until the survey is over its duration
OverTime == max_survey_duration + OneSecond

SurveyEnv ==
    [users |-> {1},
     observer |-> "event",
     events |-> {Tap("region_", "kyiv"), Tap("unknown", ""), Text(start_command)},
     delays |-> {0, OverTime},
     outcomes |-> {"ok"},
     orders |-> {"asc"},
     horizon |-> OverTime]

InitSurvey == StartsAs(Constructed(NoResumes), {}, {})

NextSurvey ==
    \/ CommandStartHandler(SurveyEnv)
    \/ ProcessPlaceOfRegionCallbackWrapper(SurveyEnv)
    \/ Unhandled(SurveyEnv)

SpecSurvey == InitSurvey /\ [][NextSurvey]_vars

-----------------------------------------------------------------------------
(* The suspicion score.                                                    *)

\* the step drops an event of u on a failed check
DroppedByCheck(u) == From(u) /\ FailedACheck(last')

\* the step is the first event of u at or after the end of u's block
ExpiresOn(u) == From(u) /\ u \notin whitelist /\ u \notin blacklist /\ ExpiredAt(u, now')

\* C33 (as the specification states it): a user's suspicion score is never
\* negative and never decreases except at a block expiry; every event
\* dropped by a failing check strictly increases it.
C33_ScoreGrowsOnEveryDrop ==
    [][\A u \in Users :
         /\ user_activities'[u].suspicious_score >= 0
         /\ user_activities'[u].suspicious_score < user_activities[u].suspicious_score
            => ExpiresOn(u)
         /\ DroppedByCheck(u)
            => user_activities'[u].suspicious_score
                 > user_activities[u].suspicious_score]_vars

\* C33 (amended): the score is never negative; it decreases only on the
\* first event after the end of a block, when that event is forwarded;
\* every event dropped by a failing check strictly increases it, except
\* the first event after the end of a block, which leaves it at least
\* where it was.
C33_ScoreGrowsOnDropUnlessExpiry ==
    [][\A u \in Users :
         /\ user_activities'[u].suspicious_score >= 0
         /\ user_activities'[u].suspicious_score < user_activities[u].suspicious_score
            => ExpiresOn(u) /\ last'.verdict = "forward"
         /\ DroppedByCheck(u)
            => IF ExpiresOn(u)
               THEN user_activities'[u].suspicious_score
                      >= user_activities[u].suspicious_score
               ELSE user_activities'[u].suspicious_score
                      > user_activities[u].suspicious_score]_vars

\* C33 witness: the first event of user 1 after the end of their block,
\* when the survey is over its duration, has failed the survey check alone
\* and the user is blocked again.  (Before the first delivery at OverTime
\* a score of 20 or more is only held under a block.)
C33_Witness ==
    /\ now = OverTime
    /\ last.ev.from_user = 1 /\ last.failed = {"survey"}
    /\ user_activities[1].blocked_until = now + ExpiryDelay
    /\ user_activities[1].suspicious_score >= BlockThreshold + BlockPenalty
    /\ CountWithin(user_activities[1].request_times, now, OneSecond) = 1

\* the steps that reach the state of the C33 witness are expiries
C33_WitnessIsAnExpiry == [][C33_Witness' /\ ~C33_Witness => ExpiresOn(1)]_vars

\* the least score a block triggered by the threshold leaves when it ends
LeftAfterExpiry == BlockThreshold + BlockPenalty - ExpiryDecrement

\* u is under a block set by the step
BlockedAnew(u) ==
    /\ user_activities'[u].blocked_until # NoTime
    /\ user_activities'[u].blocked_until > now'
    /\ user_activities'[u].suspicious_score >= BlockThreshold

\* C34: when a block triggered by the threshold ends, the score left is at
\* least 15, and the next failed check of that user blocks them again:
\* whether it fails on the event that lifts the block or on a later one,
\* the score being still 15 or more.
C34_NextFailureReblocks ==
    [][\A u \in Users :
         /\ (ExpiresOn(u) /\ last'.verdict = "forward")
            => /\ user_activities'[u].blocked_until = NoTime
               /\ user_activities'[u].suspicious_score >= LeftAfterExpiry
         /\ (ExpiresOn(u) /\ DroppedByCheck(u)) => BlockedAnew(u)
         /\ (/\ DroppedByCheck(u)
             /\ user_activities[u].blocked_until = NoTime
             /\ user_activities[u].suspicious_score >= LeftAfterExpiry)
            => BlockedAnew(u)]_vars

\* C34 witness: the first event of user 1 after the end of their block
\* has failed a check and the user is blocked again.  (A user not yet
\* blocked has a score below 20, and one failure on one event brings it to
\* 29 at most.)
C34_Witness ==
    /\ now = ExpiryDelay
    /\ last.ev.from_user = 1 /\ FailedACheck(last)
    /\ user_activities[1].blocked_until = now + ExpiryDelay
    /\ user_activities[1].suspicious_score >= BlockThreshold + ExpiryDecrement
    /\ CountWithin(user_activities[1].request_times, now, OneSecond) = 1

\* the steps that reach the state of the C34 witness are expiries
C34_WitnessIsAnExpiry == [][C34_Witness' /\ ~C34_Witness => ExpiresOn(1)]_vars

-----------------------------------------------------------------------------
(* Two users side by side.  Both are on neither list; each taps a region   *)
(* button, which the gate counts and which puts the sender's Session in    *)
(* the city step; deliveries come at once or more than a day apart, so     *)
(* that the event of one user runs the cleanup over the idle entry of the  *)
(* other.                                                                  *)

PairEnv ==
    [users |-> Users,
     observer |-> "event",
     events |-> {Tap("region_", "kyiv")},
     delays |-> {0, IdleDelay},
     outcomes |-> {"ok"},
     orders |-> {"asc"},
     horizon |-> IdleDelay]

InitPair == StartsAs(Constructed(NoResumes), {}, {})

NextPair == ProcessPlaceOfRegionCallbackWrapper(PairEnv)

SpecPair == InitPair /\ [][NextPair]_vars

-----------------------------------------------------------------------------
(* A survey over its duration.                                             *)

\* the survey of u, started as the gate saw it, is over max_survey_duration
\* at instant t
SurveyOverTime(u, t) ==
    /\ user_activities[u].present
    /\ fsm_state[u] # NoState
    /\ user_activities[u].survey_start_time # NoTime
    /\ t - user_activities[u].survey_start_time > max_survey_duration

IsStart(ev) == ev.kind = "message" /\ ev.has_text /\ ev.text = start_command

\* C36: a user whose survey is over the maximum duration is not locked out
\* for good: a /start they send while not blocked does not fail the survey
\* check.  (The claim asks for more: that it is forwarded and resets the
\* Session.)
C36_StartPassesSurveyCheck ==
    [][\A u \in Users :
         (/\ From(u) /\ IsStart(last'.ev)
          /\ u \notin whitelist /\ u \notin blacklist
          /\ ~BlockedAt(u, now')
          /\ SurveyOverTime(u, now'))
         => "survey" \notin last'.failed]_vars

\* once the survey of u is over its duration no event of u is forwarded,
\* and the survey stays open with the same start
OverdueSurveyStaysLocked ==
    [][\A u \in Users :
         (From(u) /\ u \notin whitelist /\ SurveyOverTime(u, now'))
         => /\ last'.verdict # "forward"
            /\ fsm_state'[u] = fsm_state[u]
            /\ user_activities'[u].survey_start_time
                 = user_activities[u].survey_start_time]_vars

-----------------------------------------------------------------------------
(* Payloads of a tap.  A run starts where SpecSelect starts; the taps      *)
(* carry the tag of a keyboard with an index in range, an index out of     *)
(* range, or a suffix that is no number.                                   *)

\* deliveries observed after the starting point
PayloadHorizon == 2

PayloadEnv ==
    [users |-> {1},
     observer |-> "update",
     events |-> {Tap(tag, item) : tag \in SelectTags, item \in {"0", "9", "x"}},
     delays |-> {1},
     outcomes |-> {"ok"},
     orders |-> {"asc", "desc"},
     horizon |-> PayloadHorizon]

NextPayload ==
    \/ ToggleDrivingCategoriesWrapper(PayloadEnv)
    \/ ProcessDrivingSemiTrailerTypesWrapper(PayloadEnv)
    \/ ToggleTypeOfWorkWrapper(PayloadEnv)
    \/ ToggleRaceDurationWrapper(PayloadEnv)
    \/ ToggleDocsForDrivingAbroadWrapper(PayloadEnv)

SpecPayload == InitSelect /\ [][NextPayload]_vars

\* the fixed option list of the keyboard with the buttons of a tag
OptionsOf(tag) ==
    IF tag = "docs_abroad_" THEN DOCS_FOR_DRIVING_ABROAD ELSE GenericOptions[tag]

\* C37: the selection stored for a multi-select field is always a subset
\* of that field's option list, whatever the taps with the field's tag
\* carry: an index in range, an index out of range, a suffix that is no
\* number.
C37_SelectionWithinOptions ==
    \A u \in Users, tag \in SelectTags :
      Selection(fsm_data[u], tag) \subseteq Range(OptionsOf(tag))

-----------------------------------------------------------------------------
(* A deletion during an edit.  A run starts in edit mode, after the stored *)
(* resume of History has been opened for one field; the "delete" button of *)
(* the resume shown earlier can still be tapped (a callback handler is     *)
(* chosen by its data), and the store does what it is asked.               *)

\* deliveries observed after the starting point
DeletedHorizon == 3

DeletedEdits == {"name", "salary", "adr", "military", "description"}

DeletedEnv ==
    [users |-> {1},
     observer |-> "update",
     events |-> {Tap("delete_resume_confirm", ""), Text(SampleName), Text(SampleSalary),
                 Tap("adr_", "yes"), Tap("military_", "yes"), Tap("skip_description", "")},
     delays |-> {1},
     outcomes |-> {"ok"},
     orders |-> {"asc"},
     horizon |-> DeletedHorizon]

InitDeleted == \E field \in DeletedEdits : StartsAs(EditEntry(field), {}, {})

NextDeleted ==
    \/ HandleDeleteResume(DeletedEnv)
    \/ ProcessNameWrapper(DeletedEnv)
    \/ ProcessDesiredSalaryWrapper(DeletedEnv)
    \/ ProcessAdrLicenseWrapper(DeletedEnv)
    \/ ProcessMilitaryBookingWrapper(DeletedEnv)
    \/ ProcessDescriptionWrapper(DeletedEnv)
    \/ SkipDescriptionWrapper(DeletedEnv)
    \/ Unhandled(DeletedEnv)

SpecDeleted == InitDeleted /\ [][NextDeleted]_vars

\* the step runs a Save: it calls update-by-key
Saves == CallsOf(last', "update_resume") # {}

\* C38: when the Record of u has been deleted while u is editing, the Save
\* that follows does not recreate it: update-by-key returns false, the
\* store still has no Record for u, u is sent the failure message, and the
\* Session is cleared.
C38_SaveAfterDeleteFails ==
    [][\A u \in Users :
         (From(u) /\ Editing(u) /\ ~Exists(resumes[u]) /\ Saves)
         => /\ \A i \in CallsOf(last', "update_resume") :
                 last'.calls[i].key = u /\ ~last'.calls[i].ok
            /\ CallsOf(last', "add_resume") = {}
            /\ ~Exists(resumes'[u])
            /\ "error_resume_update_failed" \in last'.sent
            /\ "msg_resume_updated" \notin last'.sent
            /\ fsm_state'[u] = NoState
            /\ fsm_data'[u] = EmptyDict]_vars

\* C38 witness: user 1 has no Record any more, their Save has called
\* update-by-key, which returned false, they have been sent the failure
\* message and their Session is cleared
C38_Witness ==
    /\ last.ev.from_user = 1
    /\ ~Exists(resumes[1])
    /\ \E i \in CallsOf(last, "update_resume") : last.calls[i].key = 1 /\ ~last.calls[i].ok
    /\ "error_resume_update_failed" \in last.sent
    /\ SessionCleared(1)

-----------------------------------------------------------------------------
(* The loop over the selected categories.                                  *)

(* A run starts in the creation flow, where the categories have just been *)
(* submitted: category B alone, or B and C1E as in History.  The buttons   *)
(* of the category keyboard can still be tapped: a callback handler is     *)
(* chosen by its data, whatever the step.                                  *)

\* deliveries observed after the starting point
LoopHorizon == 5

\* the point of History where the categories are submitted
SubmitPoint == StoredLen - 16

\* History with category B alone selected and submitted
OneCategory ==
    SubSeq(History, 1, SubmitPoint - 2) \o <<Tap("driver_categories_", "submit")>>

LoopEnv ==
    [users |-> {1},
     observer |-> "update",
     events |-> {Photo, Text(<<"3">>), Text(<<"7">>), Text(<<"a">>),
                 Tap("driver_categories_", "0"),
                 Tap("driver_categories_", "1"), Tap("driver_categories_", "submit")},
     delays |-> {1},
     outcomes |-> {"ok"},
     orders |-> {"asc", "desc"},
     horizon |-> LoopHorizon]

InitLoop ==
    \/ StartsAs(ReplayOf(History, SubmitPoint), {}, {})
    \/ StartsAs(ReplayOf(OneCategory, Len(OneCategory)), {}, {})

NextLoop ==
    \/ ToggleDrivingCategoriesWrapper(LoopEnv)
    \/ ProcessDrivingExpPerCategoryWrapper(LoopEnv)
    \/ Unhandled(LoopEnv)

SpecLoop == InitLoop /\ [][NextLoop]_vars

\* u is in the per-category experience step of the creation flow
AskingExperience(u) == fsm_state[u] = "driving_exp_per_category" /\ ~Editing(u)

\* C39: in the creation flow, from the submit of n >= 1 categories until
\* the state leaves the per-category experience step, the category index
\* stays within the selected list (so that each of the n categories is
\* asked once and the n-th valid input ends the loop).
C39_IndexWithinSelection ==
    \A u \in Users :
      AskingExperience(u)
      => Get(fsm_data[u], "current_category_index", 0)
           < Len(Get(fsm_data[u], "selected_driver_categories", <<>>))

====
